---- MODULE Spec2Model ----
(***************************************************************************)
(* Adaptive remediation engine of ServerServiceManager.                    *)
(*                                                                         *)
(* Two orchestrators exist in the source: SmartAIFix.fix_service           *)
(* (smart_ai_fix.py: predictor, known-fix store, generator) and            *)
(* ai_fix_service (ai_fix.py: known-fix store, generator), the one the     *)
(* restart worker calls.  Each owns an ErrorLearner instance; both         *)
(* instances are backed by the same file error_knowledge.json.             *)
(*                                                                         *)
(* Texts that the code processes character by character (error messages,   *)
(* patterns, generator answers, commands) are sequences of one-character   *)
(* strings.  A Python Optional is a sequence of length 0 (None) or 1.       *)
(***************************************************************************)
EXTENDS Integers, Sequences, FiniteSets, TLC

\* ------------------------------------------------------------------ bounds
\* Number of orchestrator invocations in a run (the clock stops there).
MaxOps == 2

\* ------------------------------------------------------- Python primitives
None == <<>>
Some(x) == <<x>>
IsNone(o) == o = <<>>
Val(o) == o[1]

Max(a, b) == IF a >= b THEN a ELSE b

\* F(x) with x evaluated once, before F is applied
Let(x, F(_)) == CHOOSE r \in {F(v) : v \in {x}} : TRUE

Range(f) == {f[i] : i \in DOMAIN f}

UpperChars == <<"A","B","C","D","E","F","G","H","I","J","K","L","M",
                "N","O","P","Q","R","S","T","U","V","W","X","Y","Z">>
LowerChars == <<"a","b","c","d","e","f","g","h","i","j","k","l","m",
                "n","o","p","q","r","s","t","u","v","w","x","y","z">>
DigitChars == {"0","1","2","3","4","5","6","7","8","9"}
SpaceChars == {" ", "\t", "\n", "\r"}
HexChars   == DigitChars \cup {"a","b","c","d","e","f"}
\* \w of Python's re: letters, digits and the underscore
WordChars  == Range(UpperChars) \cup Range(LowerChars) \cup DigitChars \cup {"_"}
PathChars  == WordChars \cup {"/", ".", "-"}

\* str.lower() on one character
LowerChar(c) ==
    IF c \in Range(UpperChars)
    THEN LowerChars[CHOOSE i \in DOMAIN UpperChars : UpperChars[i] = c]
    ELSE c

\* str.lower()
Lower(s) == [i \in DOMAIN s |-> LowerChar(s[i])]

\* length of the longest run of characters of class cls starting at s[i]
RunLen(s, i, cls) ==
    Let({j \in i..Len(s) : s[j] \notin cls}, LAMBDA stops :
        IF stops = {} THEN Max(Len(s) - i + 1, 0)
        ELSE (CHOOSE j \in stops : \A k \in stops : j <= k) - i)

\* shape of \d{4}-\d{2}-\d{2} \d{2}:\d{2}:\d{2}: "d" digit, else literal
TimestampShape == <<"d","d","d","d","-","d","d","-","d","d"," ",
                    "d","d",":","d","d",":","d","d">>

\* length of the match of the named pattern at position i of s (0: no match)
MatchLen(kind, s, i) ==
    CASE kind = "timestamp" ->
            IF /\ i + Len(TimestampShape) - 1 <= Len(s)
               /\ \A k \in DOMAIN TimestampShape :
                     IF TimestampShape[k] = "d"
                     THEN s[i + k - 1] \in DigitChars
                     ELSE s[i + k - 1] = TimestampShape[k]
            THEN Len(TimestampShape) ELSE 0
      [] kind = "path" ->
            IF s[i] = "/" /\ RunLen(s, i + 1, PathChars) >= 1
            THEN 1 + RunLen(s, i + 1, PathChars) ELSE 0
      [] kind = "number" -> RunLen(s, i, DigitChars)
      [] kind = "hash" ->
            IF RunLen(s, i, HexChars) >= 8 THEN RunLen(s, i, HexChars) ELSE 0
      [] kind = "space" -> RunLen(s, i, SpaceChars)

\* re.sub(pattern, repl, s): leftmost, greedy, non-overlapping matches.
\* from[i] is the result for s[i..]: the text up to the first match at or
\* after i, the replacement, and the result for what follows the match
ReSub(kind, repl, s) ==
    Let(s, LAMBDA t :
        LET from[i \in 1..(Len(t) + 1)] ==
                Let({j \in i..Len(t) : MatchLen(kind, t, j) > 0}, LAMBDA hits :
                    IF hits = {} THEN SubSeq(t, i, Len(t))
                    ELSE Let(CHOOSE j \in hits : \A k \in hits : j <= k,
                             LAMBDA j :
                                 SubSeq(t, i, j - 1) \o repl
                                     \o from[j + MatchLen(kind, t, j)]))
        IN  from[1])

\* str.strip()
Strip(s) ==
    Let(s, LAMBDA t :
    Let({i \in DOMAIN t : t[i] \notin SpaceChars}, LAMBDA inked :
        IF inked = {} THEN <<>>
        ELSE SubSeq(t, CHOOSE i \in inked : \A j \in inked : i <= j,
                       CHOOSE i \in inked : \A j \in inked : i >= j)))

\* the maximal runs of characters of s that are not in the class seps, in order
Runs(s, seps) ==
    Let(s, LAMBDA t :
    Let({i \in DOMAIN t : t[i] \notin seps /\ (i = 1 \/ t[i - 1] \in seps)},
        LAMBDA starts :
            [k \in 1..Cardinality(starts) |->
                Let(CHOOSE i \in starts : Cardinality({j \in starts : j <= i}) = k,
                    LAMBDA first :
                        SubSeq(t, first,
                               first + RunLen(t, first, Range(t) \ seps) - 1))]))

\* str.split()
Split(s) == Runs(s, SpaceChars)

TIMESTAMP == <<"[","T","I","M","E","S","T","A","M","P","]">>
PATH      == <<"[","P","A","T","H","]">>
NUMBER    == <<"[","N","U","M","B","E","R","]">>
HASH      == <<"[","H","A","S","H","]">>

\* ErrorLearner._extract_error_pattern
extract_error_pattern(error_message) ==
    LET pattern0 == Lower(error_message)
        pattern1 == ReSub("timestamp", TIMESTAMP, pattern0)
        pattern2 == ReSub("path", PATH, pattern1)
        pattern3 == ReSub("number", NUMBER, pattern2)
        pattern4 == ReSub("hash", HASH, pattern3)
    IN  Strip(ReSub("space", <<" ">>, pattern4))

\* a variant of _normalize_error that replaces hashes before numbers
normalize_error_hash_first(error_message) ==
    LET n0 == Lower(error_message)
        n1 == ReSub("timestamp", TIMESTAMP, n0)
        n2 == ReSub("path", PATH, n1)
        n3 == ReSub("hash", HASH, n2)
        n4 == ReSub("number", NUMBER, n3)
    IN  Strip(ReSub("space", <<" ">>, n4))

\* MLErrorModel._normalize_error
normalize_error(error_message) ==
    LET n0 == Lower(error_message)
        n1 == ReSub("timestamp", TIMESTAMP, n0)
        n2 == ReSub("path", PATH, n1)
        n3 == ReSub("number", NUMBER, n2)
        n4 == ReSub("hash", HASH, n3)
    IN  Strip(ReSub("space", <<" ">>, n4))

\* a variant of _calculate_similarity that divides by the size of the first word set
calculate_similarity_by_first(pattern1, pattern2) ==
    Let(<<Range(Split(pattern1)), Range(Split(pattern2))>>, LAMBDA words :
        IF words[1] = {} /\ words[2] = {} THEN <<1, 1>>
        ELSE IF words[1] = {} \/ words[2] = {} THEN <<0, 1>>
        ELSE <<Cardinality(words[1] \cap words[2]), Cardinality(words[1])>>)

\* ErrorLearner._calculate_similarity, as the pair <<|A \cap B|, |A \cup B|>>;
\* the code's 1.0 for two empty patterns is <<1, 1>>, its 0.0 is <<0, 1>>
calculate_similarity(pattern1, pattern2) ==
    Let(<<Range(Split(pattern1)), Range(Split(pattern2))>>, LAMBDA words :
        IF words[1] = {} /\ words[2] = {} THEN <<1, 1>>
        ELSE IF words[1] = {} \/ words[2] = {} THEN <<0, 1>>
        ELSE <<Cardinality(words[1] \cap words[2]),
               Cardinality(words[1] \cup words[2])>>)

\* ------------------------------------------------- ErrorLearner (the store)
\* A Python dict keeps insertion order: it is a sequence of entries with
\* distinct keys (field key).
KeyIndex(d, k) ==
    IF \E i \in DOMAIN d : d[i].key = k
    THEN CHOOSE i \in DOMAIN d : d[i].key = k
    ELSE 0

HasKey(d, k) == KeyIndex(d, k) # 0

\* d[k] = v: an existing key keeps its place, a new key goes last
DictPut(d, k, v) ==
    IF HasKey(d, k) THEN [d EXCEPT ![KeyIndex(d, k)] = v] ELSE Append(d, v)

\* the dictionary _load_knowledge returns when there is no usable file
EmptyKnowledge == [patterns |-> <<>>, successful_fixes |-> <<>>]

\* a variant of the threshold test that accepts 0.8 itself
Above80Inclusive(sim) == 10 * sim[1] >= 8 * sim[2]

\* p/q > 0.8 for the similarity pair <<p, q>>
Above80(sim) == 10 * sim[1] > 8 * sim[2]

\* the fuzzy scan of find_known_fix: index of the first entry, in dict order,
\* whose similarity to error_pattern exceeds 0.8 (0: none)
FirstSimilar(fixes, error_pattern) ==
    Let({i \in DOMAIN fixes :
            Above80(calculate_similarity(error_pattern, fixes[i].key))},
        LAMBDA hits :
            IF hits = {} THEN 0 ELSE CHOOSE i \in hits : \A j \in hits : i <= j)

\* a variant of find_known_fix that scans for similar patterns before it looks
\* the pattern up
FoundIndexFuzzyFirst(knowledge, error_message) ==
    Let(extract_error_pattern(error_message), LAMBDA error_pattern :
        IF FirstSimilar(knowledge.successful_fixes, error_pattern) # 0
        THEN FirstSimilar(knowledge.successful_fixes, error_pattern)
        ELSE KeyIndex(knowledge.successful_fixes, error_pattern))

\* index of the entry of successful_fixes that find_known_fix answers from
FoundIndex(knowledge, error_message) ==
    Let(extract_error_pattern(error_message), LAMBDA error_pattern :
        IF HasKey(knowledge.successful_fixes, error_pattern)
        THEN KeyIndex(knowledge.successful_fixes, error_pattern)
        ELSE FirstSimilar(knowledge.successful_fixes, error_pattern))

\* a variant of find_known_fix that answers only from a record of the
\* service it is asked for
find_known_fix_of_service(knowledge, service_name, error_message) ==
    Let(FoundIndex(knowledge, error_message), LAMBDA i :
        IF i = 0 \/ knowledge.successful_fixes[i].service # service_name
        THEN None
        ELSE Some(knowledge.successful_fixes[i].command))

\* ErrorLearner.find_known_fix
find_known_fix(knowledge, service_name, error_message) ==
    Let(FoundIndex(knowledge, error_message), LAMBDA i :
        IF i = 0 THEN None ELSE Some(knowledge.successful_fixes[i].command))

\* a variant of learn_fix that keeps only the latest failed attempt of a
\* pattern
learn_fix_latest_only(knowledge, service_name, error_message, command, success, stdout, stderr, now) ==
    Let(extract_error_pattern(error_message), LAMBDA error_pattern :
    IF success
    THEN [knowledge EXCEPT !.successful_fixes =
            DictPut(@, error_pattern,
                    [key |-> error_pattern, command |-> command,
                     service |-> service_name, first_seen |-> now,
                     last_used |-> now, success_count |-> 1,
                     stdout |-> stdout, stderr |-> stderr])]
    ELSE LET old == knowledge.patterns
             base == IF HasKey(old, error_pattern) THEN old
                     ELSE Append(old, [key |-> error_pattern,
                                       failed_attempts |-> <<>>,
                                       service |-> service_name,
                                       first_seen |-> now])
             i == KeyIndex(base, error_pattern)
         IN  [knowledge EXCEPT !.patterns =
                [base EXCEPT ![i].failed_attempts =
                    <<[command |-> command, timestamp |-> now,
                       stdout |-> stdout, stderr |-> stderr]>>]])

\* ErrorLearner.learn_fix: the in-memory dictionary after the call
learn_fix(knowledge, service_name, error_message, command, success, stdout, stderr, now) ==
    Let(extract_error_pattern(error_message), LAMBDA error_pattern :
    IF success
    THEN [knowledge EXCEPT !.successful_fixes =
            DictPut(@, error_pattern,
                    [key |-> error_pattern, command |-> command,
                     service |-> service_name, first_seen |-> now,
                     last_used |-> now, success_count |-> 1,
                     stdout |-> stdout, stderr |-> stderr])]
    ELSE LET old == knowledge.patterns
             base == IF HasKey(old, error_pattern) THEN old
                     ELSE Append(old, [key |-> error_pattern,
                                       failed_attempts |-> <<>>,
                                       service |-> service_name,
                                       first_seen |-> now])
             i == KeyIndex(base, error_pattern)
         IN  [knowledge EXCEPT !.patterns =
                [base EXCEPT ![i].failed_attempts =
                    Append(@, [command |-> command, timestamp |-> now,
                               stdout |-> stdout, stderr |-> stderr])]])

\* a variant of update_success_count that counts the reuse on every known fix
update_success_count_of_all(knowledge, error_pattern, now) ==
    LET i == KeyIndex(knowledge.successful_fixes, error_pattern) IN
    IF i = 0 THEN knowledge
    ELSE [knowledge EXCEPT !.successful_fixes =
            [j \in DOMAIN @ |->
                [@[j] EXCEPT !.success_count = @ + 1,
                             !.last_used = IF j = i THEN now ELSE @]]]

\* ErrorLearner.update_success_count: the in-memory dictionary after the call
update_success_count(knowledge, error_pattern, now) ==
    LET i == KeyIndex(knowledge.successful_fixes, error_pattern) IN
    IF i = 0 THEN knowledge
    ELSE [knowledge EXCEPT !.successful_fixes[i].success_count = @ + 1,
                           !.successful_fixes[i].last_used = now]

\* whether update_success_count reaches _save_knowledge
UpdateSaves(knowledge, error_pattern) ==
    HasKey(knowledge.successful_fixes, error_pattern)


\* ------------------------------------------------ MLErrorModel (predictor)
\* TfidfVectorizer(ngram_range=(1, 3), stop_words='english', min_df=2) with
\* scikit-learn's default token pattern \b\w\w+\b.  Term weights: the term
\* counts; the inverse document frequencies are taken as equal.
\* the entries of scikit-learn's English stop word list of at most two letters
\* that the modelled messages can contain
StopWords == {<<"n","o">>, <<"o","f">>, <<"t","o">>, <<"i","s">>}

\* the analyzer's tokens: the lower-cased runs of two or more word characters
\* that are not stop words
Tokens(text) ==
    Let(Lower(text), LAMBDA t :
        SelectSeq(Runs(t, Range(t) \ WordChars),
                  LAMBDA w : Len(w) >= 2 /\ w \notin StopWords))

\* the positions <<i, n>> of the n-grams (n = 1..3) of a token sequence
GramPositions(toks) ==
    {pos \in (1..Len(toks)) \X (1..3) : pos[1] + pos[2] - 1 <= Len(toks)}

GramAt(toks, pos) == SubSeq(toks, pos[1], pos[1] + pos[2] - 1)

\* the terms (n-grams) of a text, one per position
Terms(text) ==
    Let(Tokens(text), LAMBDA toks :
        [pos \in GramPositions(toks) |-> GramAt(toks, pos)])

\* the set of terms of a text
TermSet(text) == Let(Terms(text), LAMBDA terms : Range(terms))

\* TfidfVectorizer.fit: the vocabulary is the terms found in at least min_df = 2
\* documents; None stands for the ValueError of an empty vocabulary
VectorizerFit(texts) ==
    Let([i \in DOMAIN texts |-> TermSet(texts[i])], LAMBDA sets :
        Let({t \in UNION Range(sets) :
                Cardinality({i \in DOMAIN sets : t \in sets[i]}) >= 2},
            LAMBDA vocabulary :
                IF vocabulary = {} THEN None ELSE Some(vocabulary)))

\* the dot product of the term-count vectors of two texts over the vocabulary:
\* the number of pairs of positions that hold the same vocabulary term
Dot(vocabulary, terms1, terms2) ==
    Cardinality({pq \in (DOMAIN terms1) \X (DOMAIN terms2) :
                    /\ terms1[pq[1]] \in vocabulary
                    /\ terms1[pq[1]] = terms2[pq[2]]})

\* MLErrorModel._calculate_similarity: the cosine of the two term vectors, as
\* the pair <<dot * dot, |v1|^2 * |v2|^2>> (the square of the cosine);
\* <<0, 1>> is 0.0: an unfitted vectorizer raises and the except returns 0.0,
\* and a vector without vocabulary terms has cosine 0
ml_calculate_similarity(vectorizer, error1, error2) ==
    IF IsNone(vectorizer) THEN <<0, 1>>
    ELSE Let(<<Val(vectorizer), Terms(error1), Terms(error2)>>, LAMBDA in :
         Let(<<Dot(in[1], in[2], in[3]), Dot(in[1], in[2], in[2]),
               Dot(in[1], in[3], in[3])>>, LAMBDA d :
             IF d[2] = 0 \/ d[3] = 0 THEN <<0, 1>>
             ELSE <<d[1] * d[1], d[2] * d[3]>>))

\* similarity > 0.7 and similarity > 0.8 on the squared pair
Above70Sq(sim) == 100 * sim[1] > 49 * sim[2]

Above80Sq(sim) == 100 * sim[1] > 64 * sim[2]

\* the similarity in thousandths, rounded down
SimMilli(sim) ==
    Let((1000000 * sim[1]) \div sim[2], LAMBDA n :
        CHOOSE r \in 0..1000 : r * r <= n /\ (r + 1) * (r + 1) > n)

\* the sort key of predict_fix, similarity * 0.7 + success_rate * 0.3, in
\* ten-thousandths (success_rate is kept in hundredths)
SortKey(sim, success_rate) == 7 * SimMilli(sim) + 30 * success_rate

\* a variant of the filter that lets the entries of every service through
SameServiceAny(error_entry, service_name) == TRUE

\* line 150: predict_fix looks only at the entries of the requested service
SameService(error_entry, service_name) == error_entry.service = service_name

\* the similarity predict_fix computes for each entry of error_data of the
\* service (<<0, 1>> stands at the entries of other services, which it skips)
Similarities(m, service_name, error_message) ==
    Let(normalize_error(error_message), LAMBDA normalized_error :
        [i \in DOMAIN m.error_data |->
            IF SameService(m.error_data[i], service_name)
            THEN ml_calculate_similarity(m.vectorizer, normalized_error,
                                         m.error_data[i].normalized_error)
            ELSE <<0, 1>>])

\* the entries that pass the 0.7 threshold
SimilarEntries(m, service_name, sims) ==
    {i \in DOMAIN sims :
        SameService(m.error_data[i], service_name) /\ Above70Sq(sims[i])}

\* the first entry of the descending stable sort of the similar entries
BestEntry(m, sims, similar) ==
    Let([i \in similar |->
            SortKey(sims[i], Val(m.error_data[i].rated).success_rate)],
        LAMBDA key :
            CHOOSE i \in similar :
                \A j \in similar : key[i] > key[j] \/ (key[i] = key[j] /\ i <= j))

\* MLErrorModel.predict_fix.  It reads error_entry['success_rate'] and
\* error_entry['last_used'] of every entry that passes the threshold; an entry
\* without these keys (field rated = None) raises KeyError out of predict_fix:
\* raised, and so does line 151 on an entry without the key 'service'.
\* Otherwise value is what it returns, None or Some(prediction)
predict_fix(m, service_name, error_message) ==
    IF m.error_data = <<>> THEN [raised |-> FALSE, value |-> None]
    ELSE IF \E i \in DOMAIN m.error_data : "service" \notin DOMAIN m.error_data[i]
    THEN [raised |-> TRUE, value |-> None]
    ELSE
    Let(Similarities(m, service_name, error_message), LAMBDA sims :
    Let(SimilarEntries(m, service_name, sims), LAMBDA similar :
        IF \E i \in similar : IsNone(m.error_data[i].rated)
        THEN [raised |-> TRUE, value |-> None]
        ELSE IF similar = {} THEN [raised |-> FALSE, value |-> None]
        ELSE Let(BestEntry(m, sims, similar), LAMBDA best :
             [raised |-> FALSE,
              value |-> Some([command |-> m.error_data[best].fix,
                              confidence |-> sims[best],
                              success_rate |->
                                  Val(m.error_data[best].rated).success_rate])])))

\* MLErrorModel._extract_features, of which the model keeps the length of the
\* message and the service; the others are further functions of the message,
\* and _retrain_models reads them only to fit the classifier
extract_features(error_message, service_name) ==
    [error_length |-> Len(error_message), service_name |-> service_name]

\* a variant of _retrain_models that keeps only the ten most recent entries
retrain_models_recent(model) ==
    Let([model EXCEPT !.error_data =
            SubSeq(@, Max(1, Len(@) - 9), Len(@))], LAMBDA m :
    IF Len(m.error_data) < 5 THEN m
    ELSE Let(VectorizerFit([i \in DOMAIN m.error_data |->
                               m.error_data[i].normalized_error]),
             LAMBDA fitted :
                 IF IsNone(fitted) THEN m
                 ELSE [m EXCEPT
                         !.vectorizer = fitted,
                         !.label_encoder =
                             Some({m.error_data[i].service : i \in DOMAIN m.error_data}),
                         !.classifier = Some(Len(m.error_data))]))

\* MLErrorModel._retrain_models: vectorizer.fit (line 247) raises on an empty
\* vocabulary before it changes the vectorizer; entry['features'] (line 255)
\* raises KeyError on an entry without the key, after the vectorizer was
\* fitted in place and before the encoder and the classifier are; the except
\* of line 295 ends the call
retrain_models(model) ==
    Let(model, LAMBDA m :
    IF Len(m.error_data) < 5 THEN m
    ELSE Let(VectorizerFit([i \in DOMAIN m.error_data |->
                               m.error_data[i].normalized_error]),
             LAMBDA fitted :
                 IF IsNone(fitted) THEN m
                 ELSE IF \E i \in DOMAIN m.error_data :
                            "features" \notin DOMAIN m.error_data[i]
                 THEN [m EXCEPT !.vectorizer = fitted]
                 ELSE [m EXCEPT
                         !.vectorizer = fitted,
                         !.label_encoder =
                             Some({m.error_data[i].service : i \in DOMAIN m.error_data}),
                         !.classifier = Some(Len(m.error_data))]))

\* the service_patterns entry learn_from_attempt creates for a new service
\* a variant of lines 199-203 that starts the count of a new service at 1
NewServicePatternsCounted ==
    [total_errors |-> 1, successful_fixes |-> <<>>, failed_attempts |-> <<>>]

\* lines 199-203: the statistics of a service seen for the first time
NewServicePatterns ==
    [total_errors |-> 0, successful_fixes |-> <<>>, failed_attempts |-> <<>>]

\* a variant of line 229 that is one entry late
RetrainDueLate(learned) == Len(learned.error_data) % 10 = 1

\* line 229: the periodic retraining is due
RetrainDue(learned) == Len(learned.error_data) % 10 = 0

\* retrain_log after a call of _retrain_models by caller `by`
LogRetrain(log, by, m) == Append(log, [by |-> by, size |-> Len(m.error_data)])

\* MLErrorModel.learn_from_attempt: the in-memory model after the call
learn_from_attempt(model, service_name, error_message, command, success, stdout, stderr, now) ==
    Let(model, LAMBDA m :
    LET error_entry == [service |-> service_name, error |-> error_message,
                        normalized_error |-> normalize_error(error_message),
                        fix |-> command, success |-> success,
                        stdout |-> stdout, stderr |-> stderr,
                        timestamp |-> now,
                        features |-> extract_features(error_message, service_name),
                        rated |-> None]
        old == IF service_name \in DOMAIN m.service_patterns
               THEN m.service_patterns[service_name] ELSE NewServicePatterns
        fixes == IF HasKey(old.successful_fixes, command) THEN old.successful_fixes
                 ELSE Append(old.successful_fixes,
                             [key |-> command, count |-> 0,
                              first_seen |-> now, last_used |-> now])
        k == KeyIndex(fixes, command)
        new == IF success
               THEN [old EXCEPT !.total_errors = @ + 1,
                                !.successful_fixes =
                                    [fixes EXCEPT ![k].count = @ + 1,
                                                  ![k].last_used = now]]
               ELSE [old EXCEPT !.total_errors = @ + 1,
                                !.failed_attempts =
                                    Append(@, [command |-> command,
                                               error |-> error_message,
                                               timestamp |-> now,
                                               stdout |-> stdout,
                                               stderr |-> stderr])]
        m1 == [m EXCEPT !.error_data = Append(@, error_entry),
                        !.service_patterns =
                            [s \in DOMAIN m.service_patterns \cup {service_name} |->
                                IF s = service_name THEN new
                                ELSE m.service_patterns[s]]]
    IN  Let(m1, LAMBDA learned :
            IF RetrainDue(learned) THEN retrain_models(learned)
            ELSE learned))


\* a variant of get_recommendations whose confidence is not capped at 1.0
get_recommendations_uncapped(m, service_name) ==
    IF service_name \notin DOMAIN m.service_patterns THEN <<>>
    ELSE Let(m.service_patterns[service_name].successful_fixes, LAMBDA fixes :
         LET rank(i) == 1 + Cardinality({j \in DOMAIN fixes :
                                \/ fixes[j].count > fixes[i].count
                                \/ fixes[j].count = fixes[i].count /\ j < i})
             recommendation(i) ==
                 [command |-> fixes[i].key, success_count |-> fixes[i].count,
                  last_used |-> fixes[i].last_used,
                  confidence |-> fixes[i].count]
         IN  [r \in 1..(IF Len(fixes) < 5 THEN Len(fixes) ELSE 5) |->
                 recommendation(CHOOSE i \in DOMAIN fixes : rank(i) = r)])

\* MLErrorModel.get_recommendations: one entry for each command in the
\* service's successful_fixes, sorted by success_count, largest first (the
\* sort is stable: equal counts stay in the order of the dict), the first five
\* of them; confidence = min(count / 10, 1.0) is held in tenths
get_recommendations(m, service_name) ==
    IF service_name \notin DOMAIN m.service_patterns THEN <<>>
    ELSE Let(m.service_patterns[service_name].successful_fixes, LAMBDA fixes :
         LET rank(i) == 1 + Cardinality({j \in DOMAIN fixes :
                                \/ fixes[j].count > fixes[i].count
                                \/ fixes[j].count = fixes[i].count /\ j < i})
             recommendation(i) ==
                 [command |-> fixes[i].key, success_count |-> fixes[i].count,
                  last_used |-> fixes[i].last_used,
                  confidence |-> IF fixes[i].count < 10 THEN fixes[i].count ELSE 10]
         IN  [r \in 1..(IF Len(fixes) < 5 THEN Len(fixes) ELSE 5) |->
                 recommendation(CHOOSE i \in DOMAIN fixes : rank(i) = r)])


\* ------------------------------------------------------------------ inputs
\* "ab cd ef gh 1", "Ab cd ef gh 2" (the same pattern as E1),
\* "ab cd ef gh 1 zz" (five of six words shared with E1) and "zz"
E1 == <<"a","b"," ","c","d"," ","e","f"," ","g","h"," ","1">>
E2 == <<"A","b"," ","c","d"," ","e","f"," ","g","h"," ","2">>
E3 == <<"a","b"," ","c","d"," ","e","f"," ","g","h"," ","1"," ","z","z">>
E4 == <<"z","z">>

\* the (service_name, error_message) pairs the orchestrators are called with
Inputs == {<<"web", E2>>, <<"web", E3>>, <<"db", E4>>}

\* what the worker puts on the queue: response.text, or None when the
\* response has no text or the call raised
Contents == {None, Some(<<>>), Some(<<" ">>), Some(<<" ","r","\n">>)}

\* what subprocess.run reports for a command
Outcomes == {[returncode |-> 0, stdout |-> "ok", stderr |-> ""],
             [returncode |-> 1, stdout |-> "", stderr |-> "err"]}

\* smart: the process holding smart_ai_fix.smart_fix; worker: the restart
\* worker, which calls ai_fix.ai_fix_service
Procs == {"smart", "worker"}

\* ------------------------------------------------- durable state at start
\* error_knowledge.json left by an earlier run of the restart worker: a fix for
\* E1 learned from the generator and reused once
EarlierKnowledge ==
    update_success_count(
        learn_fix(EmptyKnowledge, "web", E1, <<"r">>, TRUE, "ok", "", 0),
        extract_error_pattern(E1), 0)

\* the knowledge base of a process that, after that, saw "s" succeed on "zz"
\* for "db" once "q" and "p" had failed on it, and "q" fail on E1 for "web"
FullerKnowledge ==
    Let(EarlierKnowledge, LAMBDA k0 :
    Let(learn_fix(k0, "db", E4, <<"q">>, FALSE, "", "no", 0), LAMBDA k1 :
    Let(learn_fix(k1, "web", E1, <<"q">>, FALSE, "", "no", 0), LAMBDA k2 :
    Let(learn_fix(k2, "db", E4, <<"p">>, FALSE, "", "no", 0), LAMBDA k3 :
        learn_fix(k3, "db", E4, <<"s">>, TRUE, "ok", "", 0)))))

\* MLErrorModel.__init__ with an empty model directory
FreshModel ==
    [error_data |-> <<>>, service_patterns |-> <<>>, vectorizer |-> None,
     label_encoder |-> None, classifier |-> None]

RECURSIVE LearnedTimes(_, _)
\* the model after n attempts (web, E1, "r", exit 0) learned by an earlier run
LearnedTimes(m, n) ==
    IF n = 0 THEN m
    ELSE Let(LearnedTimes(m, n - 1), LAMBDA before :
             learn_from_attempt(before, "web", E1, <<"r">>, TRUE, "ok", "", 0))

\* "7": a message that is one number
N1 == <<"7">>

\* a data.json whose entries carry the success_rate and last_used keys that
\* predict_fix reads (learn_from_attempt writes neither), with the pickles of
\* a model fitted on it (its vocabulary: the terms "number" and "zz")
RatedData ==
    LET e(service, error, fix, success, rate) ==
            [service |-> service, error |-> error,
             normalized_error |-> normalize_error(error), fix |-> fix,
             success |-> success, stdout |-> "", stderr |-> "", timestamp |-> 0,
             features |-> extract_features(error, service),
             rated |-> Some([success_rate |-> rate, last_used |-> 0])]
    IN  << e("web", N1, <<"r">>, TRUE, 100), e("web", E4, <<"s">>, FALSE, 50),
           e("db", E4, <<"s">>, TRUE, 100), e("web", N1, <<"r">>, TRUE, 100),
           e("db", E4, <<"s">>, TRUE, 100) >>

RatedModel ==
    retrain_models([FreshModel EXCEPT !.error_data = RatedData])

\* ml_models/ as an earlier run left it after nine attempts
LearnedModel == LearnedTimes(FreshModel, 9)

\* a data.json written before the entries had the key 'features': nine rated
\* entries without it, and the pickles of a model fitted on them
OlderData ==
    LET e(service, error, fix, success, rate) ==
            [service |-> service, error |-> error,
             normalized_error |-> normalize_error(error), fix |-> fix,
             success |-> success, stdout |-> "", stderr |-> "", timestamp |-> 0,
             rated |-> Some([success_rate |-> rate, last_used |-> 0])]
    IN  << e("web", N1, <<"r">>, TRUE, 100), e("web", N1, <<"r">>, TRUE, 100),
           e("web", N1, <<"r">>, TRUE, 100), e("web", N1, <<"r">>, TRUE, 100),
           e("web", E4, <<"s">>, FALSE, 50), e("web", E4, <<"s">>, FALSE, 50),
           e("db", E4, <<"s">>, TRUE, 100), e("db", E4, <<"s">>, TRUE, 100),
           e("web", E3, <<"t">>, TRUE, 100) >>

OlderModel ==
    Let(OlderData, LAMBDA data :
        [FreshModel EXCEPT
            !.error_data = data,
            !.vectorizer = VectorizerFit([i \in DOMAIN data |->
                                             data[i].normalized_error]),
            !.label_encoder = Some({data[i].service : i \in DOMAIN data}),
            !.classifier = Some(Len(data))])

\* the durable state the processes start from: error_knowledge.json and ml_models/
Starts == {<<EmptyKnowledge, FreshModel>>,
           <<EarlierKnowledge, LearnedModel>>,
           <<EarlierKnowledge, RatedModel>>}


\* ------------------------------------------------------------------- state
VARIABLES
    clock,                \* datetime.now(): the number of invocations started
    error_patterns,       \* ErrorLearner.error_patterns of each process
    knowledge_file,       \* the content of error_knowledge.json
    ml_model,             \* smart_ai_fix.ml_model: error_data, service_patterns, fitted objects
    model_dir,            \* the content of ml_models/ (data.json and the pickles)
    fix_history,          \* SmartAIFix.fix_history
    performance_metrics,  \* SmartAIFix.performance_metrics
    pc,                   \* where each process is in its orchestrator
    call,                 \* the (service_name, error_message) of the invocation
    worker,               \* the multiprocessing.Process p of the invocation
    queue,                \* the multiprocessing.Queue of the invocation
    result,               \* the tuple the invocation returned
    trace,                \* what the invocation did (observation only)
    retrain_log,          \* the calls of _retrain_models so far (observation only)
    args,                 \* the arguments of a direct call of a store operation
    value,                \* what the direct call returned
    disk,                 \* the condition of each file of the two stores
    service_restart_queue, \* the Redis list "service_restart_queue"
    monitor,              \* where monitor_and_fix is in its loop
    restart               \* where service_restart_worker is in its loop

vars == <<clock, error_patterns, knowledge_file, ml_model, model_dir, fix_history,
          performance_metrics, pc, call, worker, queue, result, trace,
          retrain_log, args, value, disk, service_restart_queue, monitor,
          restart>>

\* the variables of the monitoring loop and of the restart worker
restarts == <<service_restart_queue, monitor, restart>>

\* the variables of the direct calls and the condition of the files, which the
\* orchestrators do not touch
direct == <<args, value, disk, restarts>>

\* error_knowledge.json and the four files of ml_models/
Files == {"knowledge", "vectorizer", "classifier", "label_encoder", "data"}

\* every file readable and holding what knowledge_file and model_dir say
Sound == [f \in Files |-> "ok"]

NoResult == [command |-> None, stdout |-> None, stderr |-> ""]

\* trace[p]: the prediction and the known fix the invocation obtained, the tier
\* that supplied the command, the commands handed to subprocess.run, whether
\* the generator process was started, whether join ran into its timeout,
\* whether the invocation raised, and the stores as they were when it began
NoTrace ==
    [prediction |-> None, known |-> None, tier |-> "none", executed |-> <<>>,
     outcome |-> None, suggested |-> FALSE, timed_out |-> FALSE,
     raised |-> FALSE, before |-> None]

Snapshot(p) ==
    Some([knowledge |-> error_patterns[p], ml_model |-> ml_model,
          fix_history |-> fix_history])

\* SmartAIFix.__init__, MLErrorModel.__init__ / _load_models and
\* ErrorLearner.__init__ / _load_knowledge of both processes
\* the processes constructed over the durable state `start`
InitFrom(start) ==
    /\ clock = 0
    /\ knowledge_file = start[1]
    /\ model_dir = start[2]
    /\ error_patterns = [p \in Procs |-> knowledge_file]
    /\ ml_model = model_dir
    /\ fix_history = <<>>
    /\ performance_metrics = [ml_predictions |-> 0, ai_calls |-> 0,
                              successful_fixes |-> 0, failed_fixes |-> 0]
    /\ pc = [p \in Procs |-> "idle"]
    /\ call = [p \in Procs |-> [service_name |-> "web", error_message |-> E1]]
    /\ worker = [p \in Procs |-> "none"]
    /\ queue = [p \in Procs |-> <<>>]
    /\ result = [p \in Procs |-> NoResult]
    /\ trace = [p \in Procs |-> NoTrace]
    /\ retrain_log = <<>>

\* monitor: the number of the cycle, the services of the cycle, the position
\* of the next service to check, the statuses read in the cycle; jobs and
\* pushed are the messages pushed in the cycle and since the start
\* (observation only)
IdleMonitor ==
    [cycle |-> 0, services |-> <<>>, at |-> 1, seen |-> <<>>, jobs |-> <<>>,
     pushed |-> <<>>]

\* restart: the worker waits in blpop, holds a message, is in process_job or
\* has ended; handed are the jobs passed to ai_fix_service and outcomes how
\* those calls ended (observation only)
IdleWorker ==
    [pc |-> "waiting", job |-> None, handed |-> <<>>, outcomes |-> <<>>]

\* an empty queue, the monitoring thread and the worker just started
NoRestarts ==
    /\ service_restart_queue = <<>>
    /\ monitor = IdleMonitor
    /\ restart = IdleWorker

Init ==
    /\ \E start \in Starts : InitFrom(start)
    /\ args = None
    /\ value = None
    /\ disk = Sound
    /\ NoRestarts

\* ----------------------------------------------- SmartAIFix.fix_service
\* `if known_fix:` / `if content:` on an Optional[str]: None and the empty
\* string are falsy
Truthy(text) == ~IsNone(text) /\ Val(text) # <<>>

\* SelectTier with the predictor tier switched off
SelectTierPredictorOff(ml_prediction, known_fix) ==
    IF Truthy(known_fix) THEN "known_fix" ELSE "ai_fallback"

\* SelectTier without the known-fix tier
SelectTierKnownSkipped(ml_prediction, known_fix) ==
    IF ~IsNone(ml_prediction) /\ Above80Sq(Val(ml_prediction).confidence)
    THEN "ml_prediction"
    ELSE "ai_fallback"

\* lines 48 and 73: which tier supplies the command
SelectTier(ml_prediction, known_fix) ==
    IF ~IsNone(ml_prediction) /\ Above80Sq(Val(ml_prediction).confidence)
    THEN "ml_prediction"
    ELSE IF Truthy(known_fix) THEN "known_fix" ELSE "ai_fallback"

\* the tier of ai_fix_service (line 40)
SelectWorkerTier(known_fix) ==
    IF Truthy(known_fix) THEN "known_fix" ELSE "ai_fallback"

\* ReturnNoFix that also tracks a failed attempt without a command
ReturnNoFixTracked(p, stdout, reason) ==
    /\ result' = [result EXCEPT ![p] =
          [command |-> None, stdout |-> stdout, stderr |-> reason]]
    /\ \E knowledge \in {learn_fix(error_patterns[p], call[p].service_name,
                                     call[p].error_message, <<>>, FALSE,
                                     "", reason, clock)} :
          /\ error_patterns' = [error_patterns EXCEPT ![p] = knowledge]
          /\ knowledge_file' = knowledge
    /\ UNCHANGED <<ml_model, model_dir, fix_history, performance_metrics, trace,
                   retrain_log>>

\* `return None, <stdout>, <reason>`: the invocation ends without a command
\* and without having touched a store
ReturnNoFix(p, stdout, reason) ==
    /\ result' = [result EXCEPT ![p] =
          [command |-> None, stdout |-> stdout, stderr |-> reason]]
    /\ UNCHANGED <<error_patterns, knowledge_file, ml_model, model_dir,
                   fix_history, performance_metrics, trace, retrain_log>>

\* a variant of _record_fix_attempt that tags every attempt 'ai_fallback'
record_fix_attempt_as_fallback(history, service_name, error_message, command, success, method, now) ==
    Append(history, [service |-> service_name, error |-> error_message,
                     command |-> command, success |-> success,
                     method |-> "ai_fallback", timestamp |-> now])

\* SmartAIFix._record_fix_attempt
record_fix_attempt(history, service_name, error_message, command, success, method, now) ==
    Append(history, [service |-> service_name, error |-> error_message,
                     command |-> command, success |-> success,
                     method |-> method, timestamp |-> now])

\* lines 60-63, 82-85, 106-109
CountOutcome(metrics, success) ==
    IF success THEN [metrics EXCEPT !.successful_fixes = @ + 1]
    ELSE [metrics EXCEPT !.failed_fixes = @ + 1]

\* the learning block of a tier of fix_service: learn_from_attempt (with
\* _save_models), learn_fix (with _save_knowledge), the counters and the history
LearnOutcome(service_name, error_message, command, success, stdout, stderr, method, metrics, now) ==
    /\ \E learned \in {learn_from_attempt(ml_model, service_name, error_message,
                                            command, success, stdout, stderr, now)} :
          /\ ml_model' = learned
          /\ model_dir' = learned
          /\ retrain_log' = IF RetrainDue(learned)
                            THEN LogRetrain(retrain_log, "learn", learned)
                            ELSE retrain_log
    /\ \E knowledge \in {learn_fix(error_patterns["smart"], service_name,
                                     error_message, command, success,
                                     stdout, stderr, now)} :
          /\ error_patterns' = [error_patterns EXCEPT !["smart"] = knowledge]
          /\ knowledge_file' = knowledge
    /\ performance_metrics' = CountOutcome(metrics, success)
    /\ fix_history' = record_fix_attempt(fix_history, service_name, error_message,
                                         command, success, method, now)

\* fix_service up to the start of the generator process (lines 39-96 and
\* 118-135): predict_fix, the predictor tier, find_known_fix, the known-fix tier
FixServiceStart(service_name, error_message, run) ==
    LET now == clock + 1
        p == "smart"
        fresh == [NoTrace EXCEPT !.before = Snapshot(p)]
    IN
    /\ UNCHANGED direct
    /\ pc[p] \in {"idle", "done"}
    /\ clock < MaxOps
    /\ clock' = now
    /\ call' = [call EXCEPT ![p] = [service_name |-> service_name,
                                    error_message |-> error_message]]
    /\ queue' = [queue EXCEPT ![p] = <<>>]
    /\ \E predicted \in {predict_fix(ml_model, service_name, error_message)} :
       IF predicted.raised
       THEN /\ pc' = [pc EXCEPT ![p] = "done"]
            /\ trace' = [trace EXCEPT ![p] = [fresh EXCEPT !.raised = TRUE]]
            /\ result' = [result EXCEPT ![p] = NoResult]
            /\ worker' = [worker EXCEPT ![p] = "none"]
            /\ UNCHANGED <<error_patterns, knowledge_file, ml_model, model_dir,
                           fix_history, performance_metrics, retrain_log>>
       ELSE
       \E ml_prediction \in {predicted.value},
          known_fix \in {find_known_fix(error_patterns[p], service_name,
                                         error_message)} :
       LET tier == SelectTier(ml_prediction, known_fix)
           seen == [fresh EXCEPT !.prediction = ml_prediction,
                                 !.known = IF tier = "ml_prediction" THEN None
                                           ELSE known_fix,
                                 !.tier = tier]
           success == run.returncode = 0
       IN
       CASE tier = "ml_prediction" ->
              LET command == Val(ml_prediction).command IN
              /\ LearnOutcome(service_name, error_message, command, success,
                              run.stdout, run.stderr, "ml_prediction",
                              [performance_metrics EXCEPT !.ml_predictions = @ + 1],
                              now)
              /\ pc' = [pc EXCEPT ![p] = "done"]
              /\ worker' = [worker EXCEPT ![p] = "none"]
              /\ trace' = [trace EXCEPT ![p] =
                    [seen EXCEPT !.executed = <<command>>, !.outcome = Some(run)]]
              /\ result' = [result EXCEPT ![p] =
                    [command |-> Some(command), stdout |-> Some(run.stdout),
                     stderr |-> run.stderr]]
         [] tier = "known_fix" ->
              LET command == Val(known_fix) IN
              /\ LearnOutcome(service_name, error_message, command, success,
                              run.stdout, run.stderr, "known_fix",
                              performance_metrics, now)
              /\ pc' = [pc EXCEPT ![p] = "done"]
              /\ worker' = [worker EXCEPT ![p] = "none"]
              /\ trace' = [trace EXCEPT ![p] =
                    [seen EXCEPT !.executed = <<command>>, !.outcome = Some(run)]]
              /\ result' = [result EXCEPT ![p] =
                    [command |-> Some(command), stdout |-> Some(run.stdout),
                     stderr |-> run.stderr]]
         [] tier = "ai_fallback" ->
              /\ performance_metrics' =
                    [performance_metrics EXCEPT !.ai_calls = @ + 1]
              /\ pc' = [pc EXCEPT ![p] = "join"]
              /\ worker' = [worker EXCEPT ![p] = "running"]
              /\ trace' = [trace EXCEPT ![p] = [seen EXCEPT !.suggested = TRUE]]
              /\ result' = [result EXCEPT ![p] = NoResult]
              /\ UNCHANGED <<error_patterns, knowledge_file, ml_model, model_dir,
                             fix_history, retrain_log>>

\* -------------------------------------------------- the generator process
\* gemini_generate_content: the worker puts its answer on the queue and exits
WorkerFinish(p, content) ==
    /\ UNCHANGED <<direct, retrain_log>>
    /\ worker[p] = "running"
    /\ worker' = [worker EXCEPT ![p] = "exited"]
    /\ queue' = [queue EXCEPT ![p] = Append(@, content)]
    /\ UNCHANGED <<clock, error_patterns, knowledge_file, ml_model, model_dir,
                   fix_history, performance_metrics, pc, call, result, trace>>

\* p.join(timeout=30) returns because the worker has exited
JoinReturns(p) ==
    /\ UNCHANGED <<direct, retrain_log>>
    /\ pc[p] = "join"
    /\ worker[p] = "exited"
    /\ pc' = [pc EXCEPT ![p] = "joined"]
    /\ UNCHANGED <<clock, error_patterns, knowledge_file, ml_model, model_dir,
                   fix_history, performance_metrics, call, worker, queue,
                   result, trace>>

\* p.join(timeout=30) returns because the 30 seconds have passed
JoinTimeout(p) ==
    /\ UNCHANGED <<direct, retrain_log>>
    /\ pc[p] = "join"
    /\ worker[p] = "running"
    /\ pc' = [pc EXCEPT ![p] = "joined"]
    /\ trace' = [trace EXCEPT ![p].timed_out = TRUE]
    /\ UNCHANGED <<clock, error_patterns, knowledge_file, ml_model, model_dir,
                   fix_history, performance_metrics, call, worker, queue, result>>

\* queue.get() if not queue.empty() else None
QueueGet(q) == IF q = <<>> THEN None ELSE Head(q)

\* `not content`
Falsy(content) == ~Truthy(content)


\* what _call_ai_for_fix and ai_fix_service do once join has returned: a worker
\* still alive is terminated; otherwise the queue is read
Alive(w) == w = "running"

\* AfterJoinWorker without p.terminate()
AfterJoinWorkerLeftAlive(w) == w

AfterJoinWorker(w) == IF Alive(w) THEN "terminated" ELSE w

\* the command _call_ai_for_fix / ai_fix_service derive from the queue, None
\* when the worker was alive or the content is falsy
SuggestedCommand(w, q) ==
    IF Alive(w) \/ Falsy(QueueGet(q)) THEN None
    ELSE Some(Strip(Val(QueueGet(q))))

\* fix_service from the return of join on (lines 137-147 and 98-116)
FixServiceFinish(run) ==
    LET p == "smart"
        now == clock
        success == run.returncode = 0
    IN
    /\ UNCHANGED direct
    /\ pc[p] = "joined"
    /\ pc' = [pc EXCEPT ![p] = "done"]
    /\ worker' = [worker EXCEPT ![p] = AfterJoinWorker(@)]
    /\ queue' = [queue EXCEPT ![p] = <<>>]
    /\ UNCHANGED <<clock, call>>
    /\ \E ai_result \in {SuggestedCommand(worker[p], queue[p])} :
       IF IsNone(ai_result)
       THEN ReturnNoFix(p, Some(""), "Failed to generate fix")
       ELSE LET command == Val(ai_result) IN
            /\ LearnOutcome(call[p].service_name, call[p].error_message, command,
                            success, "", "", "ai_fallback", performance_metrics, now)
            /\ trace' = [trace EXCEPT ![p].executed = <<command>>,
                                      ![p].outcome = Some(run)]
            /\ result' = [result EXCEPT ![p] =
                  [command |-> Some(command), stdout |-> Some(""), stderr |-> ""]]

\* ------------------------------------------------- ai_fix.ai_fix_service
\* ai_fix_service up to the start of the generator process (lines 37-55)
AiFixServiceStart(service_name, error_message, run) ==
    LET now == clock + 1
        p == "worker"
    IN
    /\ UNCHANGED <<direct, retrain_log>>
    /\ pc[p] \in {"idle", "done"}
    /\ clock < MaxOps
    /\ clock' = now
    /\ call' = [call EXCEPT ![p] = [service_name |-> service_name,
                                    error_message |-> error_message]]
    /\ queue' = [queue EXCEPT ![p] = <<>>]
    /\ UNCHANGED <<ml_model, model_dir, fix_history, performance_metrics>>
    /\ \E known_fix \in {find_known_fix(error_patterns[p], service_name,
                                          error_message)},
          error_pattern \in {extract_error_pattern(error_message)} :
       LET seen == [NoTrace EXCEPT !.before = Snapshot(p), !.known = known_fix,
                                   !.tier = SelectWorkerTier(known_fix)]
       IN
       IF seen.tier = "known_fix"
       THEN /\ error_patterns' = [error_patterns EXCEPT ![p] =
                  update_success_count(@, error_pattern, now)]
            /\ knowledge_file' = IF UpdateSaves(error_patterns[p], error_pattern)
                                 THEN error_patterns'[p] ELSE knowledge_file
            /\ pc' = [pc EXCEPT ![p] = "done"]
            /\ worker' = [worker EXCEPT ![p] = "none"]
            /\ trace' = [trace EXCEPT ![p] =
                  [seen EXCEPT !.executed = <<Val(known_fix)>>,
                               !.outcome = Some(run)]]
            /\ result' = [result EXCEPT ![p] =
                  [command |-> known_fix, stdout |-> Some(run.stdout),
                   stderr |-> run.stderr]]
       ELSE /\ pc' = [pc EXCEPT ![p] = "join"]
            /\ worker' = [worker EXCEPT ![p] = "running"]
            /\ trace' = [trace EXCEPT ![p] = [seen EXCEPT !.suggested = TRUE]]
            /\ result' = [result EXCEPT ![p] = NoResult]
            /\ UNCHANGED <<error_patterns, knowledge_file>>

\* ai_fix_service from the return of join on (lines 57-73)
AiFixServiceFinish(run) ==
    LET p == "worker"
        now == clock
        success == run.returncode = 0
    IN
    /\ UNCHANGED <<direct, retrain_log>>
    /\ pc[p] = "joined"
    /\ pc' = [pc EXCEPT ![p] = "done"]
    /\ worker' = [worker EXCEPT ![p] = AfterJoinWorker(@)]
    /\ queue' = [queue EXCEPT ![p] = <<>>]
    /\ UNCHANGED <<clock, call, ml_model, model_dir, fix_history,
                   performance_metrics>>
    /\ \E suggested \in {SuggestedCommand(worker[p], queue[p])} :
       IF IsNone(suggested)
       THEN ReturnNoFix(p, None, IF Alive(worker[p])
                                 THEN "Gemini API call timed out"
                                 ELSE "No response content")
       ELSE LET command == Val(suggested) IN
            /\ error_patterns' = [error_patterns EXCEPT ![p] =
                  learn_fix(@, call[p].service_name, call[p].error_message,
                            command, success, run.stdout, run.stderr, now)]
            /\ knowledge_file' = error_patterns'[p]
            /\ trace' = [trace EXCEPT ![p].executed = <<command>>,
                                      ![p].outcome = Some(run)]
            /\ result' = [result EXCEPT ![p] =
                  [command |-> Some(command), stdout |-> Some(run.stdout),
                   stderr |-> run.stderr]]

\* ----------------------------------------------------------- specification
Next ==
    \/ \E in \in Inputs, run \in Outcomes : FixServiceStart(in[1], in[2], run)
    \/ \E run \in Outcomes : FixServiceFinish(run)
    \/ \E in \in Inputs, run \in Outcomes : AiFixServiceStart(in[1], in[2], run)
    \/ \E run \in Outcomes : AiFixServiceFinish(run)
    \/ \E p \in Procs, content \in Contents : WorkerFinish(p, content)
    \/ \E p \in Procs : JoinReturns(p)
    \/ \E p \in Procs : JoinTimeout(p)

Spec == Init /\ [][Next]_vars

\* p.join(timeout=30) returns after at most 30 seconds, and the code that
\* follows it runs to its return statement: neither step can be postponed
\* for ever
Fairness ==
    /\ \A p \in Procs : WF_vars(JoinReturns(p) \/ JoinTimeout(p))
    /\ WF_vars(\E run \in Outcomes : FixServiceFinish(run))
    /\ WF_vars(\E run \in Outcomes : AiFixServiceFinish(run))

FairSpec == Spec /\ Fairness

\* ------------------------------------------------------------- properties
\* the last invocation of p has returned or raised
Finished(p) == pc[p] = "done"

\* the last invocation of p returned without a command after asking the generator
Exhausted(p) ==
    Finished(p) /\ trace[p].suggested /\ IsNone(result[p].command)

\* the predictor returned nothing, or a confidence of at most 0.8
NoConfidentPrediction(t) ==
    IsNone(t.prediction) \/ ~Above80Sq(Val(t.prediction).confidence)

\* C1: in fix_service, whenever predict_fix returns a prediction with confidence
\* above 0.8, the command executed is the prediction's, it is the command
\* returned, and no generator process is started in that invocation.
C1_PredictorTierExecutes ==
    LET t == trace["smart"] IN
    (~IsNone(t.prediction) /\ Above80Sq(Val(t.prediction).confidence)) =>
        /\ t.tier = "ml_prediction"
        /\ t.executed = <<Val(t.prediction).command>>
        /\ result["smart"].command = Some(Val(t.prediction).command)
        /\ ~t.suggested
        /\ worker["smart"] = "none"

C1_Witness ==
    LET t == trace["smart"] IN
    /\ Finished("smart")
    /\ ~IsNone(t.prediction)
    /\ Above80Sq(Val(t.prediction).confidence)
    /\ t.executed = <<Val(t.prediction).command>>

C3_TimeoutReturns ==
    /\ \A p \in Procs : (pc[p] = "join") ~> (pc[p] = "done")
    /\ [](\A p \in Procs :
            /\ (Finished(p) /\ trace[p].suggested) => worker[p] # "running"
            /\ worker[p] = "terminated" =>
                  /\ trace[p].timed_out
                  /\ IsNone(result[p].command)
                  /\ trace[p].executed = <<>>)

C3_Witness ==
    \A p \in Procs :
        Finished(p) /\ trace[p].timed_out /\ worker[p] = "terminated"

\* C4: every invocation that executed a command has added one example
\* (service, error, command, success) to the training corpus and has recorded
\* the command in its known-fix store under the pattern of the error: as the
\* record's command on exit 0, as a failed attempt otherwise.
C4_BothStoresLearn ==
    \A p \in Procs :
        (Finished(p) /\ trace[p].executed # <<>>) =>
            LET before == Val(trace[p].before)
                command == trace[p].executed[1]
                success == Val(trace[p].outcome).returncode = 0
                pattern == extract_error_pattern(call[p].error_message)
                data == ml_model.error_data
                fixes == error_patterns[p].successful_fixes
                failed == error_patterns[p].patterns
            IN  /\ Len(data) = Len(before.ml_model.error_data) + 1
                /\ data[Len(data)].service = call[p].service_name
                /\ data[Len(data)].error = call[p].error_message
                /\ data[Len(data)].fix = command
                /\ data[Len(data)].success = success
                /\ IF success
                   THEN /\ HasKey(fixes, pattern)
                        /\ fixes[KeyIndex(fixes, pattern)].command = command
                   ELSE /\ HasKey(failed, pattern)
                        /\ \E i \in DOMAIN failed[KeyIndex(failed, pattern)].failed_attempts :
                              failed[KeyIndex(failed, pattern)].failed_attempts[i].command
                                  = command

\* C5: no step lowers the success count of a record of a known-fix store or
\* removes the record.
C5_SuccessCountNeverDecreases ==
    [][\A p \in Procs :
          \A i \in DOMAIN error_patterns[p].successful_fixes :
              LET old == error_patterns[p].successful_fixes[i]
                  fixes == error_patterns'[p].successful_fixes
              IN  /\ HasKey(fixes, old.key)
                  /\ fixes[KeyIndex(fixes, old.key)].success_count >= old.success_count
      ]_vars

\* C6: after an invocation served by the known-fix tier, the record that
\* supplied the command has a success count one higher than before the
\* invocation and a later last-used time.
C6_ReuseBumpsCount ==
    \A p \in Procs :
        (Finished(p) /\ trace[p].tier = "known_fix") =>
            LET before == Val(trace[p].before).knowledge.successful_fixes
                old == before[FoundIndex(Val(trace[p].before).knowledge,
                                         call[p].error_message)]
                fixes == error_patterns[p].successful_fixes
            IN  /\ HasKey(fixes, old.key)
                /\ fixes[KeyIndex(fixes, old.key)].success_count = old.success_count + 1
                /\ fixes[KeyIndex(fixes, old.key)].last_used > old.last_used

\* C7: no invocation raises: each one ends by returning a result.
C7_NeverRaises == \A p \in Procs : ~trace[p].raised

\* C8: when both processes have recorded a successful fix, for different
\* patterns, error_knowledge.json holds a record for both patterns.
C8_NoLostUpdate ==
    LET learned(p) == /\ Finished(p)
                      /\ trace[p].executed # <<>>
                      /\ Val(trace[p].outcome).returncode = 0
                      /\ (p = "worker" => trace[p].tier = "ai_fallback")
        pattern(p) == extract_error_pattern(call[p].error_message)
    IN  (learned("smart") /\ learned("worker") /\ pattern("smart") # pattern("worker")) =>
            /\ HasKey(knowledge_file.successful_fixes, pattern("smart"))
            /\ HasKey(knowledge_file.successful_fixes, pattern("worker"))

\* C9: an invocation that returned without a command after asking the
\* generator has executed nothing, and the known-fix store of its process and
\* (for fix_service) the training corpus, the service statistics and the fix
\* history are as they were when it began.
C9_ExhaustedLeavesStores ==
    \A p \in Procs :
        Exhausted(p) =>
            /\ trace[p].executed = <<>>
            /\ error_patterns[p] = Val(trace[p].before).knowledge
            /\ p = "smart" =>
                  /\ ml_model = Val(trace[p].before).ml_model
                  /\ fix_history = Val(trace[p].before).fix_history

C9_Witness ==
    /\ Exhausted("smart") /\ worker["smart"] = "terminated"
    /\ Exhausted("worker") /\ worker["worker"] = "exited"
    /\ error_patterns["worker"].successful_fixes # <<>>

\* the reasons that say the generator missed the deadline / gave no content
TimedOutReasons == {"Gemini API call timed out"}

NoContentReasons == {"No response content"}

\* C10: an invocation that returned without a command after asking the
\* generator returns an empty stdout and a reason that says "timed out" when
\* the generator process had to be terminated and "no response content" when
\* it had exited.
C10_ReasonTellsApart ==
    \A p \in Procs :
        Exhausted(p) =>
            /\ result[p].stdout = Some("")
            /\ worker[p] = "terminated" => result[p].stderr \in TimedOutReasons
            /\ worker[p] = "exited" => result[p].stderr \in NoContentReasons

\* C11: once fix_service has run a generator command that exited 0 for a
\* (service, error), every later fix_service invocation for the same service
\* and error message takes its command from the predictor or the known-fix
\* tier, starts no generator process and returns.
C11_LearnedTierSubsumes ==
    LET t == trace["smart"]
        earlier == Val(t.before).fix_history
    IN  (/\ pc["smart"] # "idle"
         /\ \E i \in DOMAIN earlier :
               /\ earlier[i].service = call["smart"].service_name
               /\ earlier[i].error = call["smart"].error_message
               /\ earlier[i].method = "ai_fallback"
               /\ earlier[i].success) =>
            /\ t.tier \in {"ml_prediction", "known_fix"}
            /\ ~t.suggested
            /\ ~t.raised

\* ------------------------------------------- direct calls of the operations
\* The operations of the two stores called on their own, each on arguments
\* drawn from bounded sets.
\* the longest enumerated text, and the most entries of an enumerated store
MaxLen == 2

MaxStore == 2

\* a digit, a lower-case and an upper-case letter, a blank and a slash
TextChars == {"7", "a", "A", " ", "/"}

TextsUpTo(n) == UNION {[1..k -> TextChars] : k \in 0..n}

\* "Error at /var/log/app-2024-01-01.log code 4f3a9b21"
LogLine == <<"E","r","r","o","r"," ","a","t"," ","/","v","a","r","/","l","o",
    "g","/","a","p","p","-","2","0","2","4","-","0","1","-","0","1",".","l",
    "o","g"," ","c","o","d","e"," ","4","f","3","a","9","b","2","1">>

\* "4f3a9b21", "deadbeef" and "2024-01-01 10:00:00"
HexDigits == <<"4","f","3","a","9","b","2","1">>

HexLetters == <<"d","e","a","d","b","e","e","f">>

Stamp == <<"2","0","2","4","-","0","1","-","0","1"," ","1","0",":","0","0",
    ":","0","0">>

Texts == TextsUpTo(MaxLen) \cup {LogLine, HexDigits, HexLetters, Stamp}

\* "ab cd ef gh ij", "ab cd ef gh ij 1", "Ab cd ef gh ij 2" (the pattern of
\* F2) and "ab cd ef gh"
F1 == <<"a","b"," ","c","d"," ","e","f"," ","g","h"," ","i","j">>

F2 == <<"a","b"," ","c","d"," ","e","f"," ","g","h"," ","i","j"," ","1">>

F3 == <<"A","b"," ","c","d"," ","e","f"," ","g","h"," ","i","j"," ","2">>

F4 == <<"a","b"," ","c","d"," ","e","f"," ","g","h">>

\* the successful attempts <<error_message, command>> the stores are built of
Samples == {<<F1, <<"p">>>>, <<F2, <<"q">>>>, <<E1, <<"r">>>>, <<F4, <<"s">>>>}

\* the sequences of at most n distinct samples
SampleSeqs(n) ==
    {q \in UNION {[1..k -> Samples] : k \in 0..n} :
        \A i, j \in DOMAIN q : i # j => q[i] # q[j]}

RECURSIVE LearnedFixes(_)
\* the dictionary after learn_fix has learned the samples in order
LearnedFixes(samples) ==
    IF samples = <<>> THEN EmptyKnowledge
    ELSE Let(LearnedFixes(SubSeq(samples, 1, Len(samples) - 1)), LAMBDA before :
             learn_fix(before, "web", samples[Len(samples)][1],
                       samples[Len(samples)][2], TRUE, "ok", "", 0))

Stores == {LearnedFixes(q) : q \in SampleSeqs(MaxStore)}

Queries == {F1, F3, E2, F4, E4}

Patterns == TextsUpTo(MaxLen) \cup {F1, F2, F4}

\* the predictor with no data, with rated data, and after nine and ten
\* attempts learned by learn_from_attempt
Models == {FreshModel, RatedModel, LearnedModel, LearnedTimes(FreshModel, 10)}

Services == {"web", "db", "api"}

\* the number of attempts a predictor has learned before it is asked
MaxTaught == 3

\* the attempts a predictor is taught
Lessons ==
    {[service_name |-> "web", command |-> <<"r">>, success |-> TRUE],
     [service_name |-> "web", command |-> <<"s">>, success |-> TRUE],
     [service_name |-> "web", command |-> <<"r">>, success |-> FALSE],
     [service_name |-> "db", command |-> <<"r">>, success |-> TRUE]}

\* twenty successful attempts on "web": six commands, "f" used eleven times
ManyLessons ==
    [k \in 1..20 |->
        [service_name |-> "web", success |-> TRUE,
         command |-> CASE k = 1 -> <<"a">>
                       [] k \in 2..3 -> <<"b">>
                       [] k \in 4..6 -> <<"c">>
                       [] k = 7 -> <<"d">>
                       [] k \in 8..9 -> <<"e">>
                       [] OTHER -> <<"f">>]]

RECURSIVE Taught(_)
\* a new predictor after learn_from_attempt of each lesson in turn, at the
\* times 1, 2, ...
Taught(lessons) ==
    IF lessons = <<>> THEN FreshModel
    ELSE Let(Taught(SubSeq(lessons, 1, Len(lessons) - 1)), LAMBDA before :
         Let(lessons[Len(lessons)], LAMBDA lesson :
             learn_from_attempt(before, lesson.service_name, E4, lesson.command,
                                lesson.success, "", "", Len(lessons))))

TaughtModels ==
    {Taught(lessons) :
        lessons \in UNION {[1..n -> Lessons] : n \in 0..MaxTaught} \cup {ManyLessons}}

Calls ==
    {[fn |-> "extract_error_pattern", error_message |-> t] : t \in Texts}
    \cup {[fn |-> "normalize_error", error_message |-> t] : t \in Texts}
    \cup {[fn |-> "calculate_similarity", pattern1 |-> pq[1], pattern2 |-> pq[2]] :
            pq \in Patterns \X Patterns}
    \cup {[fn |-> "find_known_fix", knowledge |-> c[1], service_name |-> c[2],
           error_message |-> c[3]] : c \in Stores \X Services \X Queries}
    \cup {[fn |-> "predict_fix", model |-> c[1], service_name |-> c[2],
           error_message |-> c[3]] : c \in Models \X Services \X {E1, E2, N1, E4}}
    \cup {[fn |-> "get_recommendations", model |-> c[1], service_name |-> c[2]] :
            c \in TaughtModels \X {"web", "db"}}

\* one caller, holding the arguments of its call
DirectInit ==
    /\ InitFrom(<<EmptyKnowledge, FreshModel>>)
    /\ args \in {Some(c) : c \in Calls}
    /\ value = None
    /\ disk = Sound
    /\ NoRestarts

\* what a direct call leaves alone
others == <<clock, error_patterns, knowledge_file, ml_model, model_dir,
            fix_history, performance_metrics, pc, call, worker, queue,
            result, trace, retrain_log, args, disk, restarts>>

\* the caller holds a call of fn that has not returned
Called(fn) == ~IsNone(args) /\ Val(args).fn = fn /\ IsNone(value)

CallExtract ==
    /\ Called("extract_error_pattern")
    /\ value' = Some(extract_error_pattern(Val(args).error_message))
    /\ UNCHANGED others

CallNormalize ==
    /\ Called("normalize_error")
    /\ value' = Some(normalize_error(Val(args).error_message))
    /\ UNCHANGED others

CallSimilarity ==
    /\ Called("calculate_similarity")
    /\ value' = Some(calculate_similarity(Val(args).pattern1, Val(args).pattern2))
    /\ UNCHANGED others

CallFind ==
    /\ Called("find_known_fix")
    /\ value' = Some(find_known_fix(Val(args).knowledge, Val(args).service_name,
                                    Val(args).error_message))
    /\ UNCHANGED others

CallPredict ==
    /\ Called("predict_fix")
    /\ value' = Some(predict_fix(Val(args).model, Val(args).service_name,
                                 Val(args).error_message))
    /\ UNCHANGED others

CallRecommend ==
    /\ Called("get_recommendations")
    /\ value' = Some(get_recommendations(Val(args).model, Val(args).service_name))
    /\ UNCHANGED others

DirectNext ==
    \/ CallExtract
    \/ CallNormalize
    \/ CallSimilarity
    \/ CallFind
    \/ CallPredict
    \/ CallRecommend

DirectSpec == DirectInit /\ [][DirectNext]_vars

\* ------------------------------------- operations on the training corpus
\* learn_from_attempt, predict_fix, get_model_stats (_estimate_accuracy),
\* auto_optimize and the retrain command of ml_cli, called in any order on the
\* predictor of the restart worker's process.
\* the most learn_from_attempt calls of a run, and the most retrainings that
\* the retrain command, and auto_optimize, force in a run
MaxLearns == 3

MaxForced == 1

\* the attempts learn_from_attempt is called with
Attempts ==
    {[service_name |-> "web", error_message |-> E1, command |-> <<"r">>,
      success |-> TRUE],
     [service_name |-> "db", error_message |-> E4, command |-> <<"s">>,
      success |-> FALSE]}

\* MLErrorModel._estimate_accuracy, in tenths: 0 below ten entries and when a
\* prediction raises (the bare except), else the number of the last ten
\* entries whose fix predict_fix returns
estimate_accuracy(m) ==
    IF Len(m.error_data) < 10 THEN 0
    ELSE Let([i \in (Len(m.error_data) - 9)..Len(m.error_data) |->
                 predict_fix(m, m.error_data[i].service, m.error_data[i].error)],
             LAMBDA prediction :
                 IF \E i \in DOMAIN prediction : prediction[i].raised THEN 0
                 ELSE Cardinality(
                          {i \in DOMAIN prediction :
                              /\ ~IsNone(prediction[i].value)
                              /\ Val(prediction[i].value).command
                                     = m.error_data[i].fix}))

\* stats['ml_accuracy'] < 0.7 of get_performance_stats (lines 167-171)
MlAccuracyLow(metrics, history) ==
    IF metrics.ml_predictions > 0
    THEN 10 * Cardinality({i \in DOMAIN history :
                              history[i].method = "ml_prediction"
                              /\ history[i].success})
             < 7 * metrics.ml_predictions
    ELSE TRUE

\* a variant of line 192 that does not look at the accuracy
OptimizeRetrainsOnCountAlone(metrics, history) ==
    metrics.ml_predictions > 10

\* line 192 of auto_optimize
OptimizeRetrains(metrics, history) ==
    MlAccuracyLow(metrics, history) /\ metrics.ml_predictions > 10

\* lines 197-198 of auto_optimize
TrimHistory(history) ==
    IF Len(history) > 1000
    THEN SubSeq(history, Len(history) - 999, Len(history))
    ELSE history

\* the number of retrainings so far that the caller `by` asked for
Forced(by) == Cardinality({i \in DOMAIN retrain_log : retrain_log[i].by = by})

\* what the operations on the corpus leave alone
apart == <<error_patterns, knowledge_file, pc, call, worker, queue, result, trace,
           disk, restarts>>

\* ml_model.learn_from_attempt(...), with its _save_models
Learn(attempt) ==
    /\ clock < MaxLearns
    /\ clock' = clock + 1
    /\ \E learned \in {learn_from_attempt(ml_model, attempt.service_name,
                                            attempt.error_message, attempt.command,
                                            attempt.success, "", "", clock + 1)} :
          /\ ml_model' = learned
          /\ model_dir' = learned
          /\ retrain_log' = IF RetrainDue(learned)
                            THEN LogRetrain(retrain_log, "learn", learned)
                            ELSE retrain_log
    /\ args' = Some([fn |-> "learn_from_attempt", attempt |-> attempt])
    /\ value' = Some(None)
    /\ UNCHANGED <<fix_history, performance_metrics, apart>>

\* ml_model.predict_fix(service_name, error_message)
Predict(service_name, error_message) ==
    /\ args' = Some([fn |-> "predict_fix", model |-> ml_model,
                     service_name |-> service_name,
                     error_message |-> error_message])
    /\ value' = Some(predict_fix(ml_model, service_name, error_message))
    /\ UNCHANGED <<clock, ml_model, model_dir, retrain_log, fix_history,
                   performance_metrics, apart>>

\* ml_model.get_model_stats()['model_accuracy']
EstimateAccuracy ==
    /\ args' = Some([fn |-> "estimate_accuracy"])
    /\ value' = Some(estimate_accuracy(ml_model))
    /\ UNCHANGED <<clock, ml_model, model_dir, retrain_log, fix_history,
                   performance_metrics, apart>>

\* smart_fix.auto_optimize(): the statistics, the forced retraining of the
\* in-memory predictor (nothing is saved) and the trimming of the history
AutoOptimize ==
    /\ Forced("auto_optimize") < MaxForced
    /\ \E retrains \in {OptimizeRetrains(performance_metrics, fix_history)} :
          /\ ml_model' = IF retrains THEN retrain_models(ml_model) ELSE ml_model
          /\ retrain_log' = IF retrains
                            THEN LogRetrain(retrain_log, "auto_optimize", ml_model)
                            ELSE retrain_log
    /\ fix_history' = TrimHistory(fix_history)
    /\ args' = Some([fn |-> "auto_optimize"])
    /\ value' = Some(None)
    /\ UNCHANGED <<clock, model_dir, performance_metrics, apart>>

\* ml_cli retrain: a predictor loaded from ml_models/ is retrained in the
\* command's own process and dropped; value is that predictor
RetrainCommand ==
    /\ Forced("ml_cli") < MaxForced
    /\ retrain_log' = LogRetrain(retrain_log, "ml_cli", model_dir)
    /\ args' = Some([fn |-> "retrain_model"])
    /\ value' = Some(retrain_models(model_dir))
    /\ UNCHANGED <<clock, ml_model, model_dir, fix_history, performance_metrics,
                   apart>>

\* eleven services, each with one rated entry for E4 in data.json and the
\* pickles of a model fitted on it
Tenants == <<"s01", "s02", "s03", "s04", "s05", "s06", "s07", "s08", "s09",
             "s10", "s11">>

TenantModel ==
    retrain_models(
        [FreshModel EXCEPT !.error_data =
            [k \in DOMAIN Tenants |->
                [service |-> Tenants[k], error |-> E4,
                 normalized_error |-> normalize_error(E4), fix |-> <<"s">>,
                 success |-> TRUE, stdout |-> "", stderr |-> "", timestamp |-> 0,
                 features |-> extract_features(E4, Tenants[k]),
                 rated |-> Some([success_rate |-> 100, last_used |-> 0])]]])

RECURSIVE Attempted(_, _)
\* the restart worker's process after fix_service has run the predictor tier
\* (lines 47-66) for E4 of the first k services, the command failing
\* (success = FALSE) or succeeding each time
Attempted(k, success) ==
    IF k = 0
    THEN [ml_model |-> TenantModel, knowledge |-> EmptyKnowledge,
          fix_history |-> <<>>,
          performance_metrics |-> [ml_predictions |-> 0, ai_calls |-> 0,
                                   successful_fixes |-> 0, failed_fixes |-> 0]]
    ELSE Let(Attempted(k - 1, success), LAMBDA before :
             [ml_model |->
                  learn_from_attempt(before.ml_model, Tenants[k], E4, <<"s">>,
                                     success, IF success THEN "ok" ELSE "",
                                     IF success THEN "" ELSE "err", 0),
              knowledge |->
                  learn_fix(before.knowledge, Tenants[k], E4, <<"s">>, success,
                            IF success THEN "ok" ELSE "",
                            IF success THEN "" ELSE "err", 0),
              fix_history |->
                  record_fix_attempt(before.fix_history, Tenants[k], E4, <<"s">>,
                                     success, "ml_prediction", 0),
              performance_metrics |->
                  CountOutcome([before.performance_metrics
                                    EXCEPT !.ml_predictions = @ + 1], success)])

\* the process in the middle of its life: after the eleven attempts
InitAttempted ==
    \E busy \in {Attempted(Len(Tenants), FALSE), Attempted(Len(Tenants), TRUE)} :
        /\ clock = 0
        /\ knowledge_file = busy.knowledge
        /\ model_dir = busy.ml_model
        /\ error_patterns = [p \in Procs |-> busy.knowledge]
        /\ ml_model = busy.ml_model
        /\ fix_history = busy.fix_history
        /\ performance_metrics = busy.performance_metrics
        /\ pc = [p \in Procs |-> "idle"]
        /\ call = [p \in Procs |-> [service_name |-> "web", error_message |-> E1]]
        /\ worker = [p \in Procs |-> "none"]
        /\ queue = [p \in Procs |-> <<>>]
        /\ result = [p \in Procs |-> NoResult]
        /\ trace = [p \in Procs |-> NoTrace]
        /\ retrain_log = <<>>

CorpusInit ==
    /\ \/ \E start \in {<<EmptyKnowledge, FreshModel>>,
                         <<EmptyKnowledge, LearnedModel>>,
                         <<EmptyKnowledge, OlderModel>>} : InitFrom(start)
       \/ InitAttempted
    /\ args = None
    /\ value = None
    /\ disk = Sound
    /\ NoRestarts

CorpusNext ==
    \/ \E attempt \in Attempts : Learn(attempt)
    \/ \E in \in Inputs : Predict(in[1], in[2])
    \/ EstimateAccuracy
    \/ AutoOptimize
    \/ RetrainCommand

CorpusSpec == CorpusInit /\ [][CorpusNext]_vars


\* ------------------------------------------ properties of the direct calls
\* the call of fn has returned
Returned(fn) == ~IsNone(args) /\ Val(args).fn = fn /\ ~IsNone(value)

Normalizers == {"extract_error_pattern", "normalize_error"}

\* the text s contains the text sub
Contains(s, sub) ==
    \E i \in 1..(Len(s) - Len(sub) + 1) : SubSeq(s, i, i + Len(sub) - 1) = sub

\* C12: normalization is idempotent: normalizing what _extract_error_pattern
\* (or _normalize_error) returned gives the same string again.
C12_NormalizeIdempotent ==
    /\ Returned("extract_error_pattern") =>
           extract_error_pattern(Val(value)) = Val(value)
    /\ Returned("normalize_error") =>
           normalize_error(Val(value)) = Val(value)

\* C13: the pattern holds no digit and no path-like substring, it holds the
\* hash placeholder whenever the lower-cased input holds a run of eight or more
\* hex characters, and the pattern of "Error at /var/log/app-2024-01-01.log
\* code 4f3a9b21" holds the path, timestamp, number and hash placeholders.
C13_PlaceholdersReplace ==
    \A fn \in Normalizers : Returned(fn) =>
        LET x == Lower(Val(args).error_message)
            pattern == Val(value)
        IN  /\ \A i \in DOMAIN pattern : pattern[i] \notin DigitChars
            /\ \A i \in DOMAIN pattern : MatchLen("path", pattern, i) = 0
            /\ (\E i \in DOMAIN x : MatchLen("hash", x, i) > 0) =>
                   Contains(pattern, HASH)
            /\ Val(args).error_message = LogLine =>
                   /\ Contains(pattern, PATH)
                   /\ Contains(pattern, TIMESTAMP)
                   /\ Contains(pattern, NUMBER)
                   /\ Contains(pattern, HASH)

\* the stored fixes and the pattern of a find_known_fix call
Fixes == Val(args).knowledge.successful_fixes

Wanted == extract_error_pattern(Val(args).error_message)

\* the entries whose pattern equals the wanted one, and those whose Jaccard
\* similarity to it is greater than 0.8
Exact == {i \in DOMAIN Fixes : Fixes[i].key = Wanted}

Close ==
    {i \in DOMAIN Fixes :
        LET sim == calculate_similarity(Wanted, Fixes[i].key)
        IN  10 * sim[1] > 8 * sim[2]}

\* C14: when the store holds a record whose pattern equals the pattern of the
\* error, find_known_fix returns that record's command, whatever else is
\* stored.
C14_ExactMatchFirst ==
    Returned("find_known_fix") =>
        \A i \in Exact : Val(value) = Some(Fixes[i].command)

\* an exact record stored after a record with another command whose
\* similarity exceeds 0.8, and the exact record's command returned
C14_Witness ==
    /\ Returned("find_known_fix")
    /\ \E i \in Exact, j \in Close :
          /\ j < i
          /\ Fixes[j].command # Fixes[i].command
          /\ Val(value) = Some(Fixes[i].command)

\* C15: without an exact match, find_known_fix returns None exactly when no
\* stored pattern has similarity above 0.8, and otherwise the command of the
\* first stored record, in store order, whose similarity is above 0.8.
C15_FirstCloseMatch ==
    (Returned("find_known_fix") /\ Exact = {}) =>
        /\ IsNone(Val(value)) <=> Close = {}
        /\ Close # {} =>
              \E i \in Close : /\ \A j \in Close : i <= j
                               /\ Val(value) = Some(Fixes[i].command)

\* two records above 0.8 with different commands, the first one's returned
C15_Witness ==
    /\ Returned("find_known_fix")
    /\ Exact = {}
    /\ \E i, j \in Close :
          /\ i < j
          /\ Fixes[i].command # Fixes[j].command
          /\ Val(value) = Some(Fixes[i].command)

\* the word sets of the two patterns of a _calculate_similarity call
Words1 == Range(Split(Val(args).pattern1))

Words2 == Range(Split(Val(args).pattern2))

\* C16: _calculate_similarity is the Jaccard index of the two word sets: it is
\* symmetric, lies in [0, 1], is 1 for equal patterns and for two empty ones,
\* and is 0 when exactly one pattern is empty.
C16_JaccardLaws ==
    Returned("calculate_similarity") =>
        LET sim == Val(value)
            back == calculate_similarity(Val(args).pattern2, Val(args).pattern1)
        IN  /\ sim[1] * back[2] = back[1] * sim[2]
            /\ 0 <= sim[1] /\ sim[1] <= sim[2] /\ sim[2] > 0
            /\ Val(args).pattern1 = Val(args).pattern2 => sim[1] = sim[2]
            /\ (Words1 = {} /\ Words2 = {}) => sim[1] = sim[2]
            /\ ((Words1 = {}) # (Words2 = {})) => sim[1] = 0
            /\ (Words1 # {} /\ Words2 # {}) =>
                  sim[1] * Cardinality(Words1 \cup Words2) =
                      sim[2] * Cardinality(Words1 \cap Words2)

\* two different non-empty patterns that share some words, not all
C16_Witness ==
    /\ Returned("calculate_similarity")
    /\ Words1 # Words2
    /\ Cardinality(Words1) # Cardinality(Words2)
    /\ Words1 \cap Words2 # {}
    /\ 0 < Val(value)[1]
    /\ Val(value)[1] < Val(value)[2]

\* the corpus of a predict_fix call, and its entries of the requested service
Corpus == Val(args).model.error_data

OfService == {i \in DOMAIN Corpus : Corpus[i].service = Val(args).service_name}

\* the similarity of entry i to the normalized error of the call
Score(i) ==
    ml_calculate_similarity(Val(args).model.vectorizer,
                            normalize_error(Val(args).error_message),
                            Corpus[i].normalized_error)

\* the entries of the requested service that score above 0.7
Candidates == {i \in OfService : Above70Sq(Score(i))}

\* C17: predict_fix returns None when error_data is empty or holds no entry
\* of the requested service, whatever the entries of other services are.
C17_NoExampleNoPrediction ==
    (Returned("predict_fix") /\ OfService = {}) =>
        /\ ~Val(value).raised
        /\ IsNone(Val(value).value)

\* a corpus whose only entries with the normalized error of the call belong
\* to other services, and None returned
C17_Witness ==
    /\ Returned("predict_fix")
    /\ OfService = {}
    /\ \E i \in DOMAIN Corpus :
          /\ Corpus[i].normalized_error = normalize_error(Val(args).error_message)
          /\ Above70Sq(Score(i))
    /\ Val(value) = [raised |-> FALSE, value |-> None]

\* C18: when an entry of the requested service scores above 0.7, predict_fix
\* raises nothing and returns the fix of the candidate with the greatest
\* 0.7 * similarity + 0.3 * success_rate, with that candidate's similarity as
\* confidence and its success rate.
C18_SimilarExamplePredicts ==
    (Returned("predict_fix") /\ Candidates # {}) =>
        /\ ~Val(value).raised
        /\ ~IsNone(Val(value).value)
        /\ \E best \in Candidates :
              /\ \A i \in Candidates :
                    SortKey(Score(best), Val(Corpus[best].rated).success_rate)
                        >= SortKey(Score(i), Val(Corpus[i].rated).success_rate)
              /\ Val(Val(value).value) =
                    [command |-> Corpus[best].fix,
                     confidence |-> Score(best),
                     success_rate |-> Val(Corpus[best].rated).success_rate]

\* ----------------------------- properties of the operations on the corpus
\* the size of the corpus of the process
Size == Len(ml_model.error_data)

\* a is a prefix of b
IsPrefix(a, b) == Len(a) <= Len(b) /\ SubSeq(b, 1, Len(a)) = a

\* a step that calls _retrain_models, and a step in which learn_from_attempt
\* brings the corpus to a multiple of 10
RetrainStep == retrain_log' # retrain_log

TenthStep ==
    /\ Len(ml_model'.error_data) = Size + 1
    /\ Len(ml_model'.error_data) % 10 = 0
    /\ Len(ml_model'.error_data) >= 5

\* C19: _retrain_models is called exactly in the steps in which a learn brings
\* the corpus size to a multiple of 10, and in no other step of any sequence
\* of operations.
C19_RetrainOnlyOnTenth == [][RetrainStep <=> TenthStep]_vars

\* C19, amended: a learn calls _retrain_models exactly when it brings the
\* corpus size to a multiple of 10, once, with the corpus of that size; every
\* other call of _retrain_models is made by auto_optimize or by the retrain
\* command, none by predict_fix or _estimate_accuracy.
C19_LearnRetrainsOnTenth ==
    [][/\ Len(ml_model'.error_data) = Size + 1 =>
              IF TenthStep
              THEN retrain_log' =
                       Append(retrain_log, [by |-> "learn", size |-> Size + 1])
              ELSE retrain_log' = retrain_log
       /\ (RetrainStep /\ Len(ml_model'.error_data) = Size) =>
              /\ Val(args').fn \in {"auto_optimize", "retrain_model"}
              /\ \E by \in {"auto_optimize", "ml_cli"}, n \in {Size, Len(model_dir.error_data)} :
                    retrain_log' = Append(retrain_log, [by |-> by, size |-> n])
      ]_vars

\* eleven examples learned, the last two in this run, and one retraining,
\* right after the tenth
C19_Witness ==
    /\ Size = 11
    /\ clock = 2
    /\ retrain_log = <<[by |-> "learn", size |-> 10]>>
    /\ Returned("learn_from_attempt")

\* C20: the corpus is append-only: in every step of learn, retrain, predict,
\* estimate-accuracy and auto-optimize the corpus before the step is a prefix
\* of the corpus after it, in memory and in ml_models/, and the predictor that
\* the retrain command retrains keeps the corpus it loaded.
C20_CorpusAppendOnly ==
    [][/\ IsPrefix(ml_model.error_data, ml_model'.error_data)
       /\ IsPrefix(model_dir.error_data, model_dir'.error_data)
       /\ (~IsNone(args') /\ Val(args').fn = "retrain_model") =>
              Val(value').error_data = model_dir.error_data
      ]_vars

\* a run in which auto_optimize and the retrain command have retrained, an
\* example has been learned and the accuracy has been estimated
C20_Witness ==
    /\ {retrain_log[i].by : i \in DOMAIN retrain_log} = {"auto_optimize", "ml_cli"}
    /\ clock > 0
    /\ Size > Len(Tenants)
    /\ Returned("estimate_accuracy")

\* ---------------------------------------------------------------- the files
\* the number of saving operations of one run
MaxWrites == 1

\* what a file can be when it is opened: "ok" (readable, holding what
\* knowledge_file / model_dir say), "missing" (os.path.exists is false),
\* "unreadable" (open raises PermissionError), "garbled" (json.load raises
\* JSONDecodeError, pickle.load raises: a truncated file, for one) and
\* "undecodable" (bytes that are no text: the read raises UnicodeDecodeError)
Conditions == <<"ok", "missing", "unreadable", "garbled", "undecodable">>

\* a JSON object that is no knowledge base, and a data.json whose one entry is
\* no training example
ForeignKnowledge == [version |-> 1]

ForeignEntry == [version |-> 1]

\* ErrorLearner._load_knowledge: the except clause catches JSONDecodeError and
\* FileNotFoundError only, and a JSON value of any shape is returned as it is
load_knowledge(condition, content) ==
    CASE condition = "ok" -> [raised |-> FALSE, value |-> content]
      [] condition \in {"missing", "garbled"} ->
            [raised |-> FALSE, value |-> EmptyKnowledge]
      [] OTHER -> [raised |-> TRUE, value |-> EmptyKnowledge]

\* the order in which _load_models and _save_models go through the files
ModelFiles == <<"vectorizer", "classifier", "label_encoder", "data">>

\* the position of the first file in ModelFiles that is there and cannot be
\* loaded (5: none)
FirstUnloadable(conditions) ==
    Let({i \in DOMAIN ModelFiles : conditions[ModelFiles[i]] \notin {"ok", "missing"}},
        LAMBDA bad : IF bad = {} THEN 5 ELSE CHOOSE i \in bad : \A j \in bad : i <= j)

\* MLErrorModel.__init__ and _load_models: the files are loaded in order until
\* one raises; `except Exception` keeps what was loaded before it
load_models(conditions, dir) ==
    Let(FirstUnloadable(conditions), LAMBDA stop :
        LET loaded(i) == i < stop /\ conditions[ModelFiles[i]] = "ok"
        IN  [vectorizer |-> IF loaded(1) THEN dir.vectorizer ELSE None,
             classifier |-> IF loaded(2) THEN dir.classifier ELSE None,
             label_encoder |-> IF loaded(3) THEN dir.label_encoder ELSE None,
             error_data |-> IF loaded(4) THEN dir.error_data ELSE <<>>,
             service_patterns |-> IF loaded(4) THEN dir.service_patterns ELSE <<>>])

\* how a save ends: "done", "refused" (open raises before anything is
\* written) or "cut" (the file was truncated by open(..., 'w') and the dump
\* raised part-way); at is the position, among the files of the store, of the
\* file the save stopped at
KnowledgeWrites ==
    <<[end |-> "done", at |-> 2], [end |-> "refused", at |-> 1],
      [end |-> "cut", at |-> 1]>>

ModelWrites ==
    <<[end |-> "done", at |-> 5]>>
    \o [i \in 1..4 |-> [end |-> "refused", at |-> i]]
    \o [i \in 1..4 |-> [end |-> "cut", at |-> i]]

\* ErrorLearner._save_knowledge: the file after the call
save_knowledge(write, memory, condition, content) ==
    CASE write.end = "done" -> [condition |-> "ok", content |-> memory]
      [] write.end = "refused" -> [condition |-> condition, content |-> content]
      [] OTHER -> [condition |-> "garbled", content |-> content]

\* MLErrorModel._save_models: the files before position write.at hold the
\* memory, the one at write.at is as the failure left it, the later ones are
\* untouched
save_models_conditions(write, conditions) ==
    [f \in Files |->
        IF f = "knowledge" THEN conditions[f]
        ELSE Let(CHOOSE i \in DOMAIN ModelFiles : ModelFiles[i] = f, LAMBDA i :
                 IF i < write.at THEN "ok"
                 ELSE IF i = write.at /\ write.end = "cut" THEN "garbled"
                 ELSE conditions[f])]

save_models_content(write, memory, dir) ==
    [vectorizer |-> IF 1 < write.at THEN memory.vectorizer ELSE dir.vectorizer,
     classifier |-> IF 2 < write.at THEN memory.classifier ELSE dir.classifier,
     label_encoder |-> IF 3 < write.at THEN memory.label_encoder
                       ELSE dir.label_encoder,
     error_data |-> IF 4 < write.at THEN memory.error_data ELSE dir.error_data,
     service_patterns |-> IF 4 < write.at THEN memory.service_patterns
                          ELSE dir.service_patterns]

\* the files a run can find: one store damaged in every way, the other sound,
\* and a sound knowledge base with several records
FileStarts ==
    Let(<<EarlierKnowledge, RatedModel, FullerKnowledge>>, LAMBDA sound :
        [i \in DOMAIN Conditions |->
            [disk |-> [Sound EXCEPT !["knowledge"] = Conditions[i]],
             knowledge_file |-> sound[1], model_dir |-> sound[2]]]
        \o << [disk |-> Sound, knowledge_file |-> ForeignKnowledge,
               model_dir |-> sound[2]],
              [disk |-> Sound, knowledge_file |-> sound[1],
               model_dir |-> [sound[2] EXCEPT !.error_data = <<ForeignEntry>>]],
              [disk |-> Sound, knowledge_file |-> sound[3],
               model_dir |-> sound[2]] >>)

ModelConditions ==
    {c \in [Files -> {"ok", "missing", "garbled"}] : c["knowledge"] = "ok"}

\* the state before smart_ai_fix is imported
FileInit ==
    /\ \E starts \in {FileStarts} :
          \/ \E i \in DOMAIN starts :
                /\ disk = starts[i].disk
                /\ knowledge_file = starts[i].knowledge_file
                /\ model_dir = starts[i].model_dir
          \/ /\ disk \in ModelConditions
             /\ knowledge_file = starts[1].knowledge_file
             /\ model_dir = starts[1].model_dir
    /\ clock = 0
    /\ error_patterns = [p \in Procs |-> EmptyKnowledge]
    /\ ml_model = FreshModel
    /\ fix_history = <<>>
    /\ performance_metrics = [ml_predictions |-> 0, ai_calls |-> 0,
                              successful_fixes |-> 0, failed_fixes |-> 0]
    /\ pc = [p \in Procs |-> "unbuilt"]
    /\ call = [p \in Procs |-> [service_name |-> "web", error_message |-> E1]]
    /\ worker = [p \in Procs |-> "none"]
    /\ queue = [p \in Procs |-> <<>>]
    /\ result = [p \in Procs |-> NoResult]
    /\ trace = [p \in Procs |-> NoTrace]
    /\ retrain_log = <<>>
    /\ args = None
    /\ value = None
    /\ NoRestarts

\* what the operations on the files leave alone
aside == <<fix_history, performance_metrics, call, worker, queue, result, trace,
           retrain_log, restarts>>

\* the process goes on, or ends with the exception
After(raised) == [pc EXCEPT !["smart"] = IF raised THEN "raised" ELSE "idle"]

\* smart_ai_fix.py lines 13-14: ml_model = MLErrorModel() and
\* error_learner = ErrorLearner()
Construct ==
    /\ pc["smart"] = "unbuilt"
    /\ ml_model' = load_models(disk, model_dir)
    /\ \E loaded \in {load_knowledge(disk["knowledge"], knowledge_file)} :
          /\ error_patterns' = [error_patterns EXCEPT !["smart"] = loaded.value]
          /\ pc' = After(loaded.raised)
    /\ args' = Some([fn |-> "import"])
    /\ value' = None
    /\ UNCHANGED <<clock, knowledge_file, model_dir, disk, aside>>

\* error_learner.find_known_fix(service_name, error_message); line 52 raises
\* KeyError when the loaded object has no 'successful_fixes'
FileFind(service_name, error_message) ==
    /\ pc["smart"] = "idle"
    /\ args' = Some([fn |-> "find_known_fix", error_message |-> error_message])
    /\ IF "successful_fixes" \in DOMAIN error_patterns["smart"]
       THEN /\ value' = Some(find_known_fix(error_patterns["smart"], service_name,
                                            error_message))
            /\ pc' = After(FALSE)
       ELSE /\ value' = None
            /\ pc' = After(TRUE)
    /\ UNCHANGED <<clock, error_patterns, ml_model, knowledge_file, model_dir,
                   disk, aside>>

\* error_learner.learn_fix(...) with its _save_knowledge; lines 87 and 99
\* raise KeyError when the loaded object lacks the key
FileLearnFix(attempt, write) ==
    /\ pc["smart"] = "idle"
    /\ clock < MaxWrites
    /\ clock' = clock + 1
    /\ args' = Some([fn |-> "learn_fix", attempt |-> attempt, write |-> write])
    /\ value' = None
    /\ IF (IF attempt.success THEN "successful_fixes" ELSE "patterns")
              \in DOMAIN error_patterns["smart"]
       THEN \E learned \in {learn_fix(error_patterns["smart"], attempt.service_name,
                                      attempt.error_message, attempt.command,
                                      attempt.success, "", "", clock + 1)} :
            \E saved \in {save_knowledge(write, learned, disk["knowledge"],
                                         knowledge_file)} :
               /\ error_patterns' = [error_patterns EXCEPT !["smart"] = learned]
               /\ knowledge_file' = saved.content
               /\ disk' = [disk EXCEPT !["knowledge"] = saved.condition]
               /\ pc' = After(FALSE)
       ELSE /\ pc' = After(TRUE)
            /\ UNCHANGED <<error_patterns, knowledge_file, disk>>
    /\ UNCHANGED <<ml_model, model_dir, aside>>

\* error_learner.update_success_count(error_pattern), which saves when the
\* pattern is known
FileBump(error_message, write) ==
    /\ pc["smart"] = "idle"
    /\ clock < MaxWrites
    /\ clock' = clock + 1
    /\ args' = Some([fn |-> "update_success_count",
                     error_message |-> error_message, write |-> write])
    /\ value' = None
    /\ IF "successful_fixes" \in DOMAIN error_patterns["smart"]
       THEN \E error_pattern \in {extract_error_pattern(error_message)} :
            \E bumped \in {update_success_count(error_patterns["smart"],
                                                error_pattern, clock + 1)} :
            \E saved \in {IF UpdateSaves(error_patterns["smart"], error_pattern)
                          THEN save_knowledge(write, bumped, disk["knowledge"],
                                              knowledge_file)
                          ELSE [condition |-> disk["knowledge"],
                                content |-> knowledge_file]} :
               /\ error_patterns' = [error_patterns EXCEPT !["smart"] = bumped]
               /\ knowledge_file' = saved.content
               /\ disk' = [disk EXCEPT !["knowledge"] = saved.condition]
               /\ pc' = After(FALSE)
       ELSE /\ pc' = After(TRUE)
            /\ UNCHANGED <<error_patterns, knowledge_file, disk>>
    /\ UNCHANGED <<ml_model, model_dir, aside>>

\* ml_model.predict_fix(service_name, error_message)
FilePredict(service_name, error_message) ==
    /\ pc["smart"] = "idle"
    /\ args' = Some([fn |-> "predict_fix", error_message |-> error_message])
    /\ \E predicted \in {predict_fix(ml_model, service_name, error_message)} :
          /\ value' = Some(predicted.value)
          /\ pc' = After(predicted.raised)
    /\ UNCHANGED <<clock, error_patterns, ml_model, knowledge_file, model_dir,
                   disk, aside>>

\* ml_model.learn_from_attempt(...) with its _save_models
FileLearn(attempt, write) ==
    /\ pc["smart"] = "idle"
    /\ clock < MaxWrites
    /\ clock' = clock + 1
    /\ args' = Some([fn |-> "learn_from_attempt", attempt |-> attempt,
                     write |-> write])
    /\ value' = None
    /\ \E learned \in {learn_from_attempt(ml_model, attempt.service_name,
                                          attempt.error_message, attempt.command,
                                          attempt.success, "", "", clock + 1)} :
          /\ ml_model' = learned
          /\ model_dir' = save_models_content(write, learned, model_dir)
          /\ disk' = save_models_conditions(write, disk)
    /\ pc' = After(FALSE)
    /\ UNCHANGED <<error_patterns, knowledge_file, aside>>

FileNext ==
    \/ Construct
    \/ \E error_message \in {E2, E4} : FileFind("web", error_message)
    \/ \E attempt \in Attempts, i \in DOMAIN KnowledgeWrites :
          FileLearnFix(attempt, KnowledgeWrites[i])
    \/ \E error_message \in {E2, E4}, i \in DOMAIN KnowledgeWrites :
          FileBump(error_message, KnowledgeWrites[i])
    \/ \E error_message \in {N1, E4} : FilePredict("web", error_message)
    \/ \E attempt \in Attempts, i \in DOMAIN ModelWrites :
          FileLearn(attempt, ModelWrites[i])

FileSpec == FileInit /\ [][FileNext]_vars

\* ---------------------------------------------------- properties (files)
\* the process ended with an exception out of the construction or of a call
Raised == pc["smart"] = "raised"

\* C21: whatever the files of the two stores are when the process starts,
\* neither the construction of the stores nor any later find, learn_fix,
\* update_success_count, predict_fix or learn_from_attempt raises, and a store
\* whose file could not be loaded starts empty
C21_DamagedStoreStartsEmpty ==
    [][/\ ~Raised'
       /\ (Construct /\ disk["knowledge"] # "ok")
             => error_patterns'["smart"] = EmptyKnowledge
       /\ (Construct /\ disk["data"] # "ok")
             => ml_model'.error_data = <<>>]_vars

\* the call of the step wrote to its store and the write did not complete
WriteFailed ==
    /\ ~IsNone(args')
    /\ "write" \in DOMAIN Val(args')
    /\ Val(args').write.end # "done"
    /\ Val(args').fn = "update_success_count"
          => /\ "successful_fixes" \in DOMAIN error_patterns["smart"]
             /\ UpdateSaves(error_patterns["smart"],
                            extract_error_pattern(Val(args').error_message))

\* C23: a save that fails, at whatever point, leaves every file of the store
\* as it was before the call, and the call returns with the learned state in
\* memory
C23_FailedWriteLeavesFiles ==
    [][(pc["smart"] = "idle" /\ WriteFailed /\ ~Raised')
          => /\ disk' = disk
             /\ knowledge_file' = knowledge_file
             /\ model_dir' = model_dir]_vars

\* a failed save never ends the process: the learned state is in memory and
\* the call returns
C23_FailedWriteKeepsServing ==
    [][(pc["smart"] = "idle" /\ WriteFailed
           /\ "successful_fixes" \in DOMAIN error_patterns["smart"])
          => /\ ~Raised'
             /\ Val(args').fn = "learn_from_attempt"
                   => Len(ml_model'.error_data) = Len(ml_model.error_data) + 1
             /\ Val(args').fn = "learn_fix"
                   => error_patterns'["smart"] # error_patterns["smart"]]_vars

\* ---------------------------------------------- properties (persistence)
\* the step is a call of fn
Calling(fn) == ~IsNone(args') /\ Val(args').fn = fn

\* the step invoked _retrain_models
Retrained == Len(retrain_log') > Len(retrain_log)

\* C22: after learn_from_attempt, and after a retraining forced by
\* auto_optimize or by the retrain command, ml_models/ holds the predictor as
\* it is in the memory of the process that changed it
C22_DurableEqualsMemory ==
    [][/\ Calling("learn_from_attempt") => model_dir' = ml_model'
       /\ (Calling("auto_optimize") /\ Retrained) => model_dir' = ml_model'
       /\ Calling("retrain_model") => model_dir' = Val(value')]_vars

\* the calls that end with a save do leave the files equal to the memory when
\* the save completes
C22_SavingCallsPersist ==
    [][(pc["smart"] = "idle" /\ ~Raised' /\ ~IsNone(args')
           /\ "write" \in DOMAIN Val(args') /\ Val(args').write.end = "done")
          => /\ Calling("learn_from_attempt")
                   => (model_dir' = ml_model'
                          /\ \A i \in DOMAIN ModelFiles : disk'[ModelFiles[i]] = "ok")
             /\ Calling("learn_fix")
                   => (knowledge_file' = error_patterns'["smart"]
                          /\ disk'["knowledge"] = "ok")
             /\ (Calling("update_success_count")
                    /\ UpdateSaves(error_patterns["smart"],
                          extract_error_pattern(Val(args').error_message)))
                   => (knowledge_file' = error_patterns'["smart"]
                          /\ disk'["knowledge"] = "ok")]_vars

\* ------------------------------------------------ properties (retraining)
\* the fitted objects predict_fix and _retrain_models work with
Scoring(m) == <<m.vectorizer, m.label_encoder, m.classifier>>

\* _retrain_models on this corpus ends in its except clause
RetrainFails(error_data) ==
    /\ Len(error_data) >= 5
    /\ \/ IsNone(VectorizerFit([i \in DOMAIN error_data |->
                                   error_data[i].normalized_error]))
       \/ \E i \in DOMAIN error_data : "features" \notin DOMAIN error_data[i]

C25_LateResultNeverUsed ==
    \A p \in Procs : trace[p].timed_out => trace[p].executed = <<>>

\* --------------------------------------------- properties (auto_optimize)
\* the ML-tier attempts in the history that succeeded
MlSuccesses ==
    Cardinality({i \in DOMAIN fix_history :
                    fix_history[i].method = "ml_prediction" /\ fix_history[i].success})

HistoryLimit == 1000

\* "a b": a message without a word of two letters; the vectorizer finds no
\* term in it, its fit raises on the empty vocabulary and stays unfitted
E5 == <<"a", " ", "b">>

\* the process after n invocations fix_service("db", "a b"), each of them
\* answered by the generator with the command "s", which fails: nothing is
\* predicted and nothing is known, so every invocation reaches the generator
\* tier, learns the failure in both stores, counts it and records it
LongRun(n) ==
    LET error_entry ==
            [service |-> "db", error |-> E5,
             normalized_error |-> normalize_error(E5), fix |-> <<"s">>,
             success |-> FALSE, stdout |-> "", stderr |-> "", timestamp |-> 0,
             features |-> extract_features(E5, "db"), rated |-> None]
        failed_attempt ==
            [command |-> <<"s">>, error |-> E5, timestamp |-> 0,
             stdout |-> "", stderr |-> ""]
        tracked ==
            [command |-> <<"s">>, timestamp |-> 0, stdout |-> "", stderr |-> ""]
        recorded ==
            [service |-> "db", error |-> E5, command |-> <<"s">>,
             success |-> FALSE, method |-> "ai_fallback", timestamp |-> 0]
    IN  [ml_model |->
             [FreshModel EXCEPT
                 !.error_data = [k \in 1..n |-> error_entry],
                 !.service_patterns =
                     [service \in {"db"} |->
                         [total_errors |-> n, successful_fixes |-> <<>>,
                          failed_attempts |-> [k \in 1..n |-> failed_attempt]]]],
         knowledge |->
             [EmptyKnowledge EXCEPT
                 !.patterns =
                     << [key |-> extract_error_pattern(E5),
                         failed_attempts |-> [k \in 1..n |-> tracked],
                         service |-> "db", first_seen |-> 0] >>],
         fix_history |-> [k \in 1..n |-> recorded],
         performance_metrics |-> [ml_predictions |-> 0, ai_calls |-> n,
                                  successful_fixes |-> 0, failed_fixes |-> n]]

\* the two processes after HistoryLimit such invocations, one invocation
\* before the end of the run that is explored
LateInit ==
    \E late \in {LongRun(HistoryLimit)} :
        /\ clock = MaxOps - 1
        /\ knowledge_file = late.knowledge
        /\ model_dir = late.ml_model
        /\ error_patterns = [p \in Procs |-> late.knowledge]
        /\ ml_model = late.ml_model
        /\ fix_history = late.fix_history
        /\ performance_metrics = late.performance_metrics
        /\ pc = [p \in Procs |-> "idle"]
        /\ call = [p \in Procs |-> [service_name |-> "db", error_message |-> E5]]
        /\ worker = [p \in Procs |-> "none"]
        /\ queue = [p \in Procs |-> <<>>]
        /\ result = [p \in Procs |-> NoResult]
        /\ trace = [p \in Procs |-> NoTrace]
        /\ retrain_log = <<>>
        /\ args = None
        /\ value = None
        /\ disk = Sound
        /\ NoRestarts

LateSpec == LateInit /\ [][Next]_vars

\* C27: the history of fix attempts never holds more than 1000 entries
C27_HistoryBounded == Len(fix_history) <= HistoryLimit

\* -------------------------------------------- properties (the self-check)
\* the ten most recent examples whose fix predict_fix returns for their own
\* service and error
Hits(m) ==
    {i \in (Len(m.error_data) - 9)..Len(m.error_data) :
        Let(predict_fix(m, m.error_data[i].service, m.error_data[i].error),
            LAMBDA prediction :
                /\ ~prediction.raised
                /\ ~IsNone(prediction.value)
                /\ Val(prediction.value).command = m.error_data[i].fix)}

Successes(m, service_name, command) ==
    {i \in DOMAIN m.error_data :
        /\ m.error_data[i].service = service_name
        /\ m.error_data[i].fix = command
        /\ m.error_data[i].success}

\* the commands that have succeeded for a service
SuccessfulCommands(m, service_name) ==
    {m.error_data[i].fix :
        i \in {j \in DOMAIN m.error_data :
                  m.error_data[j].service = service_name /\ m.error_data[j].success}}

\* C29: get_recommendations returns at most five entries, one for each
\* command that has succeeded for the service (all of them when there are at
\* most five, else the five with the largest counts), largest success_count
\* first; success_count is the number of successful examples learned for the
\* service and the command, confidence is min(success_count / 10, 1.0) (in
\* tenths); a service with no successful example has no entry
C29_Recommendations ==
    Returned("get_recommendations")
        => LET m == Val(args).model
               service_name == Val(args).service_name
               recs == Val(value)
               commands == SuccessfulCommands(m, service_name)
           IN  /\ Len(recs) <= 5
               /\ Len(recs) = IF Cardinality(commands) < 5
                              THEN Cardinality(commands) ELSE 5
               /\ \A r \in DOMAIN recs :
                     /\ recs[r].command \in commands
                     /\ recs[r].success_count
                            = Cardinality(Successes(m, service_name, recs[r].command))
                     /\ recs[r].confidence
                            = IF recs[r].success_count < 10
                              THEN recs[r].success_count ELSE 10
               /\ \A r, q \in DOMAIN recs :
                     /\ r < q => recs[r].success_count >= recs[q].success_count
                     /\ r # q => recs[r].command # recs[q].command
               /\ \A c \in commands :
                     (\A r \in DOMAIN recs : recs[r].command # c)
                        => \A r \in DOMAIN recs :
                              recs[r].success_count
                                  >= Cardinality(Successes(m, service_name, c))

\* five of six successful commands were recommended, the first of them with
\* more than ten successes and the confidence 1.0
C29_Witness ==
    /\ Returned("get_recommendations")
    /\ Len(Val(value)) = 5
    /\ Cardinality(SuccessfulCommands(Val(args).model, Val(args).service_name)) = 6
    /\ Val(value)[1].success_count = 11
    /\ Val(value)[1].confidence = 10
    /\ Val(value)[3].success_count = Val(value)[4].success_count

\* ------------------------------------------------ properties (the output)
\* C30: an invocation that executed a command returns the stdout and stderr
\* of that run of the command, and fix_service has stored the same two texts
\* with the example it added to the corpus
C30_OutputIsTheRuns ==
    \A p \in Procs :
        (Finished(p) /\ trace[p].executed # <<>>) =>
            LET run == Val(trace[p].outcome)
                data == ml_model.error_data
            IN  /\ result[p].stdout = Some(run.stdout)
                /\ result[p].stderr = run.stderr
                /\ p = "smart" => /\ data[Len(data)].stdout = run.stdout
                                  /\ data[Len(data)].stderr = run.stderr

\* ------------------------------------------- properties (knowledge base)
\* the keys of a dictionary
Keys(d) == {d[i].key : i \in DOMAIN d}

\* the step is learn_fix with success = False on a loaded knowledge base
LearningFailure ==
    /\ pc["smart"] = "idle"
    /\ Calling("learn_fix")
    /\ ~Val(args').attempt.success
    /\ ~Raised'

\* C31: learn_fix with success = False appends exactly one failed attempt to
\* the end of the pattern's record in "patterns" (creating the record if it is
\* absent), keeps the earlier attempts and the other records as they were and
\* in their order, and leaves every record of "successful_fixes" unchanged; a
\* record of "successful_fixes" is created only by learn_fix with success =
\* True.
C31_FailureAppendsOneAttempt ==
    [][/\ LearningFailure =>
            LET before == error_patterns["smart"]
                after == error_patterns'["smart"]
                attempt == Val(args').attempt
                pattern == extract_error_pattern(attempt.error_message)
                i == KeyIndex(after.patterns, pattern)
                earlier == IF HasKey(before.patterns, pattern)
                           THEN before.patterns[i].failed_attempts ELSE <<>>
            IN  /\ after.successful_fixes = before.successful_fixes
                /\ i # 0
                /\ Len(after.patterns) =
                      Len(before.patterns)
                          + (IF HasKey(before.patterns, pattern) THEN 0 ELSE 1)
                /\ \A j \in DOMAIN before.patterns :
                      /\ after.patterns[j].key = before.patterns[j].key
                      /\ j # i => after.patterns[j] = before.patterns[j]
                /\ Len(after.patterns[i].failed_attempts) = Len(earlier) + 1
                /\ SubSeq(after.patterns[i].failed_attempts, 1, Len(earlier))
                      = earlier
                /\ after.patterns[i].failed_attempts[Len(earlier) + 1].command
                      = attempt.command
       /\ (/\ pc["smart"] = "idle"
           /\ "successful_fixes" \in DOMAIN error_patterns["smart"]
           /\ Keys(error_patterns'["smart"].successful_fixes)
                 # Keys(error_patterns["smart"].successful_fixes))
             => (Calling("learn_fix") /\ Val(args').attempt.success)]_vars

\* a failed attempt was appended to a record that held two earlier ones, in a
\* knowledge base with two known fixes and another record of failures
C31_Witness ==
    /\ ~IsNone(args) /\ Val(args).fn = "learn_fix"
    /\ ~Val(args).attempt.success
    /\ pc["smart"] = "idle"
    /\ Len(error_patterns["smart"].successful_fixes) = 2
    /\ Len(error_patterns["smart"].patterns) = 2
    /\ \E i \in DOMAIN error_patterns["smart"].patterns :
          LET attempts == error_patterns["smart"].patterns[i].failed_attempts
          IN  /\ Len(attempts) = 3
              /\ attempts[3].command = Val(args).attempt.command
              /\ attempts[3].timestamp = clock

\* the step is update_success_count on a loaded knowledge base
Bumping ==
    /\ pc["smart"] = "idle"
    /\ Calling("update_success_count")
    /\ ~Raised'

\* C32: update_success_count on a pattern that has a record in
\* "successful_fixes" adds exactly 1 to that record's success_count, sets its
\* last_used to the time of the call and changes no other record and no other
\* field; on a pattern without a record it changes neither the dictionary in
\* memory nor the knowledge file.
C32_BumpCountsOneReuse ==
    [][Bumping =>
          LET before == error_patterns["smart"]
              after == error_patterns'["smart"]
              i == KeyIndex(before.successful_fixes,
                            extract_error_pattern(Val(args').error_message))
          IN  IF i = 0
              THEN /\ after = before
                   /\ knowledge_file' = knowledge_file
                   /\ disk' = disk
              ELSE /\ after.patterns = before.patterns
                   /\ DOMAIN after = DOMAIN before
                   /\ Len(after.successful_fixes) = Len(before.successful_fixes)
                   /\ \A j \in DOMAIN before.successful_fixes :
                         j # i => after.successful_fixes[j]
                                     = before.successful_fixes[j]
                   /\ after.successful_fixes[i] =
                         [before.successful_fixes[i] EXCEPT
                             !.success_count = @ + 1,
                             !.last_used = clock']]_vars

\* the reuse of one of two known fixes was counted: its count went from 1 to
\* 2 and its last_used is the time of the call, next to a record last used
\* before
C32_Witness ==
    /\ ~IsNone(args) /\ Val(args).fn = "update_success_count"
    /\ pc["smart"] = "idle"
    /\ clock = 1
    /\ Len(error_patterns["smart"].successful_fixes) = 2
    /\ \E i, j \in DOMAIN error_patterns["smart"].successful_fixes :
          LET fixes == error_patterns["smart"].successful_fixes
          IN  /\ fixes[i].key = extract_error_pattern(Val(args).error_message)
              /\ fixes[i].success_count = 2
              /\ fixes[i].last_used = 1
              /\ fixes[i].first_seen = 0
              /\ j # i
              /\ fixes[j].last_used = 0

\* ------------------------------------------------ properties (generator)
\* C33: no invocation runs an empty command and none learns one as a known
\* fix: an answer of the generator that is empty, or empty once stripped,
\* ends the invocation without a command.
C33_NoEmptyCommand ==
    \A p \in Procs :
        /\ trace[p].executed # << <<>> >>
        /\ \A i \in DOMAIN error_patterns[p].successful_fixes :
              error_patterns[p].successful_fixes[i].command # <<>>
        /\ (Finished(p) /\ trace[p].suggested /\ trace[p].executed # <<>>)
              => Val(result[p].command) # <<>>

\* ---------------------------------------- properties (service statistics)
RECURSIVE SumCounts(_)
\* the sum of the counts of the successful commands of a service
SumCounts(fixes) ==
    IF fixes = <<>> THEN 0
    ELSE fixes[Len(fixes)].count + SumCounts(SubSeq(fixes, 1, Len(fixes) - 1))

\* the services the predictor has an entry or statistics of
KnownServices(m) ==
    DOMAIN m.service_patterns
        \cup {m.error_data[i].service : i \in DOMAIN m.error_data}

\* for every service, total_errors is the number of entries of error_data
\* with that service and the sum of the counts of its successful commands
\* plus the length of its failed_attempts
StatsConsistent(m) ==
    \A s \in KnownServices(m) :
        LET examples == Cardinality({i \in DOMAIN m.error_data :
                                        m.error_data[i].service = s})
        IN  /\ s \in DOMAIN m.service_patterns
            /\ m.service_patterns[s].total_errors = examples
            /\ SumCounts(m.service_patterns[s].successful_fixes)
                  + Len(m.service_patterns[s].failed_attempts) = examples

\* C34: the statistics of MLErrorModel() with an empty model directory are
\* consistent with its entries, and every call on a predictor whose
\* statistics are consistent leaves them consistent: after any sequence of
\* learn_from_attempt calls from empty stores, for every service
\* total_errors = number of entries with that service = sum of the counts of
\* its successful commands + length of its failed_attempts.
C34_StatsMatchCorpus ==
    /\ StatsConsistent(FreshModel)
    /\ [][StatsConsistent(ml_model) => StatsConsistent(ml_model')]_vars

\* three attempts learned from empty stores: two successes of one command
\* on "web" and a failure on "db"
C34_Witness ==
    /\ ~IsNone(args) /\ Val(args).fn = "learn_from_attempt"
    /\ Len(ml_model.error_data) = 3
    /\ DOMAIN ml_model.service_patterns = {"web", "db"}
    /\ ml_model.service_patterns["web"].total_errors = 2
    /\ Len(ml_model.service_patterns["web"].successful_fixes) = 1
    /\ Len(ml_model.service_patterns["db"].failed_attempts) = 1
    /\ StatsConsistent(ml_model)

\* -------------------------------------------- properties (shared fixes)
\* the knowledge base with every known fix recorded for service_name
Reowned(knowledge, service_name) ==
    [knowledge EXCEPT !.successful_fixes =
        [i \in DOMAIN @ |-> [@[i] EXCEPT !.service = service_name]]]

\* C35: what find_known_fix returns depends neither on its service_name
\* argument nor on the service a record was learned for: on the same
\* knowledge base and error message it returns the same command for every
\* service name, and the same again when the records belong to any other
\* service.
C35_FindIgnoresService ==
    Returned("find_known_fix") =>
        \A asked, owner \in Services :
            /\ find_known_fix(Val(args).knowledge, asked,
                              Val(args).error_message) = Val(value)
            /\ find_known_fix(Reowned(Val(args).knowledge, owner), asked,
                              Val(args).error_message) = Val(value)

\* "db" asked for a fix and got one that was learned for "web"
C35_Witness ==
    /\ Returned("find_known_fix")
    /\ Val(args).service_name = "db"
    /\ ~IsNone(Val(value))
    /\ \A i \in DOMAIN Val(args).knowledge.successful_fixes :
          Val(args).knowledge.successful_fixes[i].service = "web"

\* ----------------------------------------- properties (one normalization)
\* C39: _extract_error_pattern of the knowledge base and _normalize_error of
\* the predictor are the same function: on every error message each returns
\* what the other returns.
C39_NormalizersAgree ==
    \A fn \in Normalizers : Returned(fn) =>
        /\ extract_error_pattern(Val(args).error_message) = Val(value)
        /\ normalize_error(Val(args).error_message) = Val(value)

\* _normalize_error returned a pattern with the four placeholders, the one
\* _extract_error_pattern returns, for a line with upper-case letters
C39_Witness ==
    /\ Returned("normalize_error")
    /\ Val(args).error_message = LogLine
    /\ Val(value) = extract_error_pattern(LogLine)
    /\ Val(value) # Lower(LogLine)
    /\ Contains(Val(value), PATH)
    /\ Contains(Val(value), NUMBER)

\* ------------------------------------------------- properties (counters)
\* the attempts of fix_history recorded with the method tag
Tagged(method) == {i \in DOMAIN fix_history : fix_history[i].method = method}

\* C36: from a new SmartAIFix on, and while the history is not trimmed,
\* successful_fixes + failed_fixes is the number of attempts in fix_history,
\* ml_predictions is the number of attempts tagged 'ml_prediction', and the
\* attempt an invocation records carries the tag of the tier its command
\* came from.
C36_CountersMatchHistory ==
    /\ performance_metrics.successful_fixes + performance_metrics.failed_fixes
          = Len(fix_history)
    /\ performance_metrics.ml_predictions = Cardinality(Tagged("ml_prediction"))
    /\ (Finished("smart") /\ trace["smart"].executed # <<>>) =>
          /\ fix_history # <<>>
          /\ fix_history[Len(fix_history)].method = trace["smart"].tier
          /\ fix_history[Len(fix_history)].command = trace["smart"].executed[1]
          /\ trace["smart"].tier = "ml_prediction" =>
                Val(trace["smart"].prediction).command = trace["smart"].executed[1]
          /\ trace["smart"].tier = "known_fix" =>
                Val(trace["smart"].known) = trace["smart"].executed[1]
          /\ trace["smart"].tier = "ai_fallback" => trace["smart"].suggested

\* two invocations, one through the predictor that failed and one through
\* another tier that succeeded
C36_Witness ==
    /\ Finished("smart")
    /\ Len(fix_history) = 2
    /\ Cardinality(Tagged("ml_prediction")) = 1
    /\ performance_metrics.ml_predictions = 1
    /\ performance_metrics.successful_fixes = 1
    /\ performance_metrics.failed_fixes = 1
    /\ \E i \in Tagged("ml_prediction") : ~fix_history[i].success

\* ------------------------- auto_monitor.monitor_and_fix and the restart worker
\* the number of cycles of the monitoring loop that are explored
MaxCycles == 2

\* what get_services returns in a cycle
ServiceLists == {<<>>, <<"web">>, <<"web", "db">>}

\* what check_service_status returns: the output of `systemctl is-active` or
\* the psutil status, "unknown" when the check raised, "unsupported" on
\* another platform
Statuses == {"active", "running", "inactive", "unknown", "unsupported"}

\* how a call of ai_fix_service by process_job ends: it returns a command, it
\* returns None for the command, or it raises
JobOutcomes == {"fixed", "no_fix", "raised"}

\* a variant of auto_monitor.py line 13 that knows "active" only
NeedsRestartUnlessActive(status) == status # "active"

\* auto_monitor.py line 13: `status not in ("active", "running")`
NeedsRestart(status) == status \notin {"active", "running"}

\* f"Status: {status}"
StatusMessage(status) == <<"Status: ", status>>

\* json.dumps of the message and json.loads of what blpop returned
json_dumps(msg) == <<"{", msg.service_name, msg.error_message, "}">>

json_loads(data) == [service_name |-> data[2], error_message |-> data[3]]

\* redis rpush: the value goes to the tail of the list
rpush(list, data) == Append(list, data)

\* a variant of blpop that takes the newest value
pop_newest(list) ==
    [data |-> list[Len(list)], list |-> SubSeq(list, 1, Len(list) - 1)]

\* redis blpop on a list that is not empty: the value at the head is removed
\* and returned
blpop(list) == [data |-> Head(list), list |-> Tail(list)]

\* ai_fix.queue_service_restart: the list after the call
queue_service_restart(list, service_name, error_message) ==
    rpush(list, json_dumps([service_name |-> service_name,
                            error_message |-> error_message]))

\* what the monitoring loop and the worker leave alone
rest == <<clock, error_patterns, knowledge_file, ml_model, model_dir,
          fix_history, performance_metrics, pc, call, worker, queue, result,
          trace, retrain_log, args, value, disk>>

\* the loop is between two cycles (in time.sleep, or not yet in its first)
Sleeping == monitor.at > Len(monitor.services)

\* monitor_and_fix, line 10: a cycle begins with the list of services
MonitorBegin(services) ==
    /\ Sleeping
    /\ monitor.cycle < MaxCycles
    /\ monitor' = [monitor EXCEPT !.cycle = @ + 1, !.services = services,
                                  !.at = 1, !.seen = <<>>, !.jobs = <<>>]
    /\ UNCHANGED <<service_restart_queue, restart, rest>>

\* monitor_and_fix, lines 11-15: the next service of the cycle is checked and,
\* when it is not running, a restart is queued
MonitorCheck(status) ==
    /\ ~Sleeping
    /\ LET service == monitor.services[monitor.at]
           msg == [service_name |-> service,
                   error_message |-> StatusMessage(status)]
       IN  IF NeedsRestart(status)
           THEN /\ service_restart_queue' =
                      queue_service_restart(service_restart_queue, service,
                                            StatusMessage(status))
                /\ monitor' = [monitor EXCEPT !.at = @ + 1,
                                              !.seen = Append(@, status),
                                              !.jobs = Append(@, msg),
                                              !.pushed = Append(@, msg)]
           ELSE /\ service_restart_queue' = service_restart_queue
                /\ monitor' = [monitor EXCEPT !.at = @ + 1,
                                              !.seen = Append(@, status)]
    /\ UNCHANGED <<restart, rest>>

\* service_restart_worker.py lines 16-19: blpop returns a message, which is
\* decoded
WorkerPop ==
    /\ restart.pc = "waiting"
    /\ service_restart_queue # <<>>
    /\ \E msg \in {blpop(service_restart_queue)} :
          /\ service_restart_queue' = msg.list
          /\ restart' = [restart EXCEPT !.pc = "holding",
                                        !.job = Some(json_loads(msg.data))]
    /\ UNCHANGED <<monitor, rest>>

\* process_job, lines 7-10: the job is passed to ai_fix_service
ProcessJob ==
    /\ restart.pc = "holding"
    /\ restart' = [restart EXCEPT !.pc = "processing",
                                  !.handed = Append(@, Val(restart.job))]
    /\ UNCHANGED <<service_restart_queue, monitor, rest>>

\* ai_fix_service returns, and the loop goes back to blpop, or it raises, and
\* the exception ends the worker
ProcessJobEnds(outcome) ==
    /\ restart.pc = "processing"
    /\ restart' = [restart EXCEPT
                      !.pc = IF outcome = "raised" THEN "ended" ELSE "waiting",
                      !.job = None,
                      !.outcomes = Append(@, outcome)]
    /\ UNCHANGED <<service_restart_queue, monitor, rest>>

MonitorInit ==
    /\ InitFrom(<<EmptyKnowledge, FreshModel>>)
    /\ args = None
    /\ value = None
    /\ disk = Sound
    /\ NoRestarts

MonitorNext ==
    \/ \E services \in ServiceLists : MonitorBegin(services)
    \/ \E status \in Statuses : MonitorCheck(status)
    \/ WorkerPop
    \/ ProcessJob
    \/ \E outcome \in JobOutcomes : ProcessJobEnds(outcome)

MonitorSpec == MonitorInit /\ [][MonitorNext]_vars

\* ------------------------------------------- properties (restart queue)
RECURSIVE DueJobs(_, _)
\* the jobs a cycle owes for the statuses it has read: one, in the order of
\* the checks, for every service whose status is neither "active" nor
\* "running"
DueJobs(services, seen) ==
    IF seen = <<>> THEN <<>>
    ELSE LET n == Len(seen)
             before == DueJobs(services, SubSeq(seen, 1, n - 1))
         IN  IF seen[n] \in {"active", "running"} THEN before
             ELSE Append(before, [service_name |-> services[n],
                                  error_message |-> <<"Status: ", seen[n]>>])

\* the messages of the list, decoded
Decoded(list) == [i \in DOMAIN list |-> json_loads(list[i])]

\* the step is one check of the monitoring loop
Checking == monitor'.cycle = monitor.cycle /\ monitor'.at = monitor.at + 1

\* C37: in every cycle of monitor_and_fix each service of the cycle is checked
\* once, in order; a check that reads a status other than "active" and
\* "running" ("unknown" and "unsupported" included) pushes exactly one job
\* (service, "Status: <status>") to the tail of the queue, a check that
\* reads "active" or "running" pushes nothing, and nothing else pushes.
C37_OneJobPerDownService ==
    /\ [](/\ Len(monitor.seen) = monitor.at - 1
          /\ monitor.at <= Len(monitor.services) + 1
          /\ monitor.jobs = DueJobs(monitor.services, monitor.seen))
    /\ [][IF Checking
          THEN LET service == monitor.services[monitor.at]
                   status == monitor'.seen[monitor.at]
               IN  /\ monitor'.services = monitor.services
                   /\ IF status \in {"active", "running"}
                      THEN service_restart_queue' = service_restart_queue
                      ELSE /\ Len(service_restart_queue')
                                = Len(service_restart_queue) + 1
                           /\ SubSeq(service_restart_queue', 1,
                                     Len(service_restart_queue))
                                = service_restart_queue
                           /\ json_loads(service_restart_queue'[
                                    Len(service_restart_queue')])
                                = [service_name |-> service,
                                   error_message |-> <<"Status: ", status>>]
          ELSE Len(service_restart_queue') <= Len(service_restart_queue)]_vars

\* a finished cycle over two services, one running and one whose status is
\* "unsupported": one job, for the second, is in the queue
C37_Witness ==
    /\ Sleeping
    /\ monitor.services = <<"web", "db">>
    /\ monitor.seen = <<"running", "unsupported">>
    /\ monitor.jobs = <<[service_name |-> "db",
                         error_message |-> <<"Status: ", "unsupported">>]>>
    /\ Decoded(service_restart_queue) = monitor.jobs

\* the job the worker has taken from the queue and not yet passed on
Held == IF restart.pc = "holding" THEN <<Val(restart.job)>> ELSE <<>>

\* C38: the worker passes the jobs to ai_fix_service one at a time and in the
\* order they were pushed, each at most once; a job is out of the queue
\* before it is processed, and a job whose processing failed (ai_fix_service
\* returned no command, or raised) is never in the queue again: the jobs
\* pushed are, in order, the jobs passed on, the job held, and the jobs
\* still queued.
C38_JobsHandedInOrderOnce ==
    /\ monitor.pushed = restart.handed \o Held \o Decoded(service_restart_queue)
    /\ Len(restart.outcomes) =
          Len(restart.handed) - (IF restart.pc = "processing" THEN 1 ELSE 0)
    /\ restart.pc \in {"holding", "processing"} <=> ~IsNone(restart.job)
    /\ restart.pc = "ended" =>
          restart.outcomes[Len(restart.outcomes)] = "raised"

\* three jobs were pushed; the first was processed without a fix, the second
\* is being processed and the third is still queued
C38_Witness ==
    /\ Len(monitor.pushed) = 3
    /\ restart.outcomes = <<"no_fix">>
    /\ restart.pc = "processing"
    /\ restart.handed = SubSeq(monitor.pushed, 1, 2)
    /\ restart.job = Some(monitor.pushed[2])
    /\ Decoded(service_restart_queue) = <<monitor.pushed[3]>>
    /\ monitor.pushed[1] # monitor.pushed[2]

====
